---- MODULE Spec2Model ----
(***************************************************************************)
(* State-machine model of the GPU async conversion patterns of            *)
(* backends/gpu/lib/pass/pass.cc: the rewrite patterns that wrap legal    *)
(* operations in tfrt_gpu_conversion.async.execute, rewrite function      *)
(* signatures, lower gpu.wait and async.yield, unwrap async.execute and   *)
(* fold memref.view; and of the output metadata of tf.Mean in             *)
(* backends/cpu/lib/ops/tf/cpu_ops.cc.  Each is checked under its own     *)
(* specification: SpecWrap, SpecSig, SpecWait, SpecYield, SpecUnwrap,     *)
(* SpecAsyncOp, SpecView, SpecMean.                                        *)
(*                                                                         *)
(* The program graph is kept in an arena: operations and blocks are       *)
(* numbered, a block holds the ordered list of its operations, an         *)
(* operation holds its operands and the blocks of its region.             *)
(***************************************************************************)
EXTENDS Integers, Sequences, FiniteSets, TLC

VARIABLES
  func,          \* the FuncOp a pattern is applied to (signature, blocks, operations)
  target,        \* the ConversionTarget: the set of operation kinds it calls legal
  pattern,       \* the pattern applied last ("" before the first application)
  result,        \* the LogicalResult the pattern returned (TRUE = success)
  reason,        \* the reason given to notifyMatchFailure ("" when none)
  rootUpdate,    \* how the root update of the last attempt ended
  blockResults,  \* the result of matchAndRewriteBlock for each block the walk rewrote
  pre,           \* the FuncOp as it was when the last pattern was applied
  root,          \* the operation the last pattern was applied to (0: the FuncOp)
  attempts,      \* number of pattern applications so far
  mean           \* the arguments of a TfMeanOutputMd call and what it returned

vars == <<func, target, pattern, result, reason, rootUpdate, blockResults, pre,
          root, attempts, mean>>

(* ------------------------------ bounds -------------------------------- *)

MaxBlockOps == 4     \* operations before the terminator of the entry block
MaxAttempts == 2     \* pattern applications in one behaviour
MaxParams == 2       \* parameters of a function before the signature rewrite
MaxWaitOperands == 2 \* operands of a gpu.wait
MaxYieldOperands == 3 \* operands of an async.yield
MaxExecOperands == 2 \* operands of an async.execute to unwrap
MaxBodyOps == 2 \* operations in the body of an async.execute to unwrap
MaxAsyncOps == 3 \* operations to lower in the body of an async.execute
MaxLowerings == 3 \* applications of the base lowering pattern
MaxSizes == 2 \* size operands of a memref.view
MaxUsers == 2 \* operations that use the result of a memref.view
MaxRank == 3 \* rank of the input of tf.Mean
MaxIndices == 2 \* number of reduction indices of tf.Mean
MaxDim == 3 \* size of a dimension of the input of tf.Mean

\* What TfMeanOutputMd returns: an Expected<TensorMetadata>, an error message
\* ("": none) or a dtype and dimensions.
NoMetadata == [error |-> "", dtype |-> "", dims |-> <<>>]

\* No call of TfMeanOutputMd.
NoMean ==
  [input |-> [dtype |-> "", dims |-> <<>>], reduction_indices |-> <<>>,
   done |-> FALSE, output |-> NoMetadata]

(* ------------------------------ the graph ----------------------------- *)

NoOp == 0

Range(s) == {s[i] : i \in DOMAIN s}

Index(s, x) == CHOOSE i \in DOMAIN s : s[i] = x

SeqsUpTo(S, n) == UNION {[1..k -> S] : k \in 0..n}

Arg(b, i) == [def |-> "arg", id |-> b, idx |-> i]

Res(o) == [def |-> "op", id |-> o, idx |-> 0]

MkOp(kind, operands, rtype) ==
  [kind |-> kind, operands |-> operands, rtype |-> rtype, region |-> <<>>]

EmptyFunc(inputs, results) ==
  [inputs |-> inputs, results |-> results, body |-> <<>>, ops |-> <<>>,
   blocks |-> <<>>, nextOp |-> 1, nextBlock |-> 1]

\* A new block with the given argument types, appended to the region of
\* parentOp (NoOp: the function body).  Its number is f.nextBlock.
AddBlock(f, args, parentOp) ==
  LET b == f.nextBlock
      g == [f EXCEPT !.blocks = @ @@ (b :> [ops |-> <<>>, args |-> args, parent |-> parentOp]),
                     !.nextBlock = @ + 1]
  IN IF parentOp = NoOp
       THEN [g EXCEPT !.body = Append(@, b)]
       ELSE [g EXCEPT !.ops[parentOp].region = Append(@, b)]

\* A new operation inserted at position p of block b.  Its number is f.nextOp.
InsertOp(f, b, p, op) ==
  LET o == f.nextOp
      L == f.blocks[b].ops
  IN [f EXCEPT !.ops = @ @@ (o :> op),
               !.blocks[b].ops = SubSeq(L, 1, p - 1) \o <<o>> \o SubSeq(L, p, Len(L)),
               !.nextOp = @ + 1]

AppendOp(f, b, op) == InsertOp(f, b, Len(f.blocks[b].ops) + 1, op)

\* rewriter.eraseOp
EraseOp(f, o) ==
  [f EXCEPT !.ops = [x \in DOMAIN f.ops \ {o} |-> f.ops[x]],
            !.blocks = [b \in DOMAIN f.blocks |->
                          [f.blocks[b] EXCEPT !.ops = SelectSeq(@, LAMBDA x : x # o)]]]

BlockOf(f, o) == CHOOSE b \in DOMAIN f.blocks : o \in Range(f.blocks[b].ops)

ParentOp(f, o) == f.blocks[BlockOf(f, o)].parent

TypeOf(f, v) ==
  IF v.def = "arg" THEN f.blocks[v.id].args[v.idx] ELSE f.ops[v.id].rtype

Terminator(f, b) == f.blocks[b].ops[Len(f.blocks[b].ops)]

(* ------------------------- legality classifier ------------------------ *)

\* target.isLegal(op)
isLegal(op) == op.kind \in target

(* ----------------------- WrapInAsyncExecPattern ----------------------- *)

\* conversion::AsyncExecuteOp built with no operands and no result, inserted at
\* position p of block b: its body block takes (chain, stream) and its
\* terminator returns the chain argument.
AsyncExecuteOpBuild(f, b, p) ==
  LET exec == f.nextOp
      body == f.nextBlock
      f1   == InsertOp(f, b, p, MkOp("exec", <<>>, "none"))
      f2   == AddBlock(f1, <<"chain", "stream">>, exec)
  IN AppendOp(f2, body, MkOp("tfrt.return", <<Arg(body, 1)>>, "none"))

\* WrapRun moving op, the illegal operation that ends the run, as well.
WrapRun_InclusiveEnd(f, b, legal_begin, op) ==
  LET L    == f.blocks[b].ops
      p    == Index(L, legal_begin)
      q    == Index(L, op)
      exec == f.nextOp
      body == f.nextBlock
      f1   == AsyncExecuteOpBuild(f, b, p)
  IN [f1 EXCEPT !.blocks[b].ops = SubSeq(L, 1, p - 1) \o <<exec>> \o SubSeq(L, q + 1, Len(L)),
                !.blocks[body].ops = SubSeq(L, p, q) \o @]

\* WrapRun inserting the async.execute after op, the operation that ends the run.
WrapRun_AfterEnd(f, b, legal_begin, op) ==
  LET L    == f.blocks[b].ops
      p    == Index(L, legal_begin)
      q    == Index(L, op)
      exec == f.nextOp
      body == f.nextBlock
      f1   == AsyncExecuteOpBuild(f, b, p)
  IN [f1 EXCEPT !.blocks[b].ops = SubSeq(L, 1, p - 1) \o <<op, exec>> \o SubSeq(L, q + 1, Len(L)),
                !.blocks[body].ops = SubSeq(L, p, q - 1) \o @]

\* The run [legal_begin, op) moved to its own async.execute, inserted where
\* the run began.
WrapRun(f, b, legal_begin, op) ==
  LET L    == f.blocks[b].ops
      p    == Index(L, legal_begin)
      q    == Index(L, op)
      exec == f.nextOp
      body == f.nextBlock
      f1   == AsyncExecuteOpBuild(f, b, p)
  IN [f1 EXCEPT !.blocks[b].ops = SubSeq(L, 1, p - 1) \o <<exec>> \o SubSeq(L, q, Len(L)),
                !.blocks[body].ops = SubSeq(L, p, q - 1) \o @]

\* The loop of matchAndRewriteBlock over the operations still to visit.
RECURSIVE RewriteBlockLoop(_, _, _, _, _)
RewriteBlockLoop(f, b, todo, legal_begin, res) ==
  IF todo = <<>> THEN [func |-> f, result |-> res]
  ELSE LET op == Head(todo) IN
    IF isLegal(f.ops[op])
      THEN RewriteBlockLoop(f, b, Tail(todo),
                            IF legal_begin = NoOp THEN op ELSE legal_begin, res)
    ELSE IF legal_begin = NoOp
      THEN RewriteBlockLoop(f, b, Tail(todo), NoOp, res)
    ELSE RewriteBlockLoop(WrapRun(f, b, legal_begin, op), b, Tail(todo), NoOp, TRUE)

\* The same loop without "result = success()" after a wrap.
RECURSIVE RewriteBlockLoop_NoSuccess(_, _, _, _, _)
RewriteBlockLoop_NoSuccess(f, b, todo, legal_begin, res) ==
  IF todo = <<>> THEN [func |-> f, result |-> res]
  ELSE LET op == Head(todo) IN
    IF isLegal(f.ops[op])
      THEN RewriteBlockLoop_NoSuccess(f, b, Tail(todo),
                            IF legal_begin = NoOp THEN op ELSE legal_begin, res)
    ELSE IF legal_begin = NoOp
      THEN RewriteBlockLoop_NoSuccess(f, b, Tail(todo), NoOp, res)
    ELSE RewriteBlockLoop_NoSuccess(WrapRun(f, b, legal_begin, op), b, Tail(todo), NoOp, res)

\* The same loop taking the last operation of the block for the end of a run.
RECURSIVE RewriteBlockLoop_WrapOpenRun(_, _, _, _, _)
RewriteBlockLoop_WrapOpenRun(f, b, todo, legal_begin, res) ==
  IF todo = <<>> THEN [func |-> f, result |-> res]
  ELSE LET op == Head(todo) IN
    IF isLegal(f.ops[op]) /\ Len(todo) > 1
      THEN RewriteBlockLoop_WrapOpenRun(f, b, Tail(todo),
                            IF legal_begin = NoOp THEN op ELSE legal_begin, res)
    ELSE IF legal_begin = NoOp
      THEN RewriteBlockLoop_WrapOpenRun(f, b, Tail(todo), NoOp, res)
    ELSE RewriteBlockLoop_WrapOpenRun(WrapRun(f, b, legal_begin, op), b, Tail(todo), NoOp, TRUE)

\* The same loop wrapping the empty run before an illegal operation that no
\* legal operation precedes.
RECURSIVE RewriteBlockLoop_WrapEmptyRun(_, _, _, _, _)
RewriteBlockLoop_WrapEmptyRun(f, b, todo, legal_begin, res) ==
  IF todo = <<>> THEN [func |-> f, result |-> res]
  ELSE LET op == Head(todo) IN
    IF isLegal(f.ops[op])
      THEN RewriteBlockLoop_WrapEmptyRun(f, b, Tail(todo),
                            IF legal_begin = NoOp THEN op ELSE legal_begin, res)
    ELSE RewriteBlockLoop_WrapEmptyRun(
           WrapRun(f, b, IF legal_begin = NoOp THEN op ELSE legal_begin, op),
           b, Tail(todo), NoOp, TRUE)

\* matchAndRewriteBlock with the loop that wraps empty runs.
matchAndRewriteBlock_WrapEmptyRun(f, b) ==
  RewriteBlockLoop_WrapEmptyRun(f, b, f.blocks[b].ops, NoOp, FALSE)

\* matchAndRewriteBlock with the loop that never reports success.
matchAndRewriteBlock_NoSuccess(f, b) ==
  RewriteBlockLoop_NoSuccess(f, b, f.blocks[b].ops, NoOp, FALSE)

\* matchAndRewriteBlock with the loop that ends a run at the end of the block.
matchAndRewriteBlock_WrapOpenRun(f, b) ==
  RewriteBlockLoop_WrapOpenRun(f, b, f.blocks[b].ops, NoOp, FALSE)

\* WrapInAsyncExecPattern::matchAndRewriteBlock
matchAndRewriteBlock(f, b) ==
  RewriteBlockLoop(f, b, f.blocks[b].ops, NoOp, FALSE)

\* WalkCallback with the result of the block assigned to the result of the walk.
WalkCallback_LastWins(st, b) ==
  IF st.func.blocks[b].parent # NoOp /\ st.func.ops[st.func.blocks[b].parent].kind = "exec"
    THEN st
    ELSE LET r == matchAndRewriteBlock(st.func, b)
         IN [func |-> r.func, result |-> r.result,
             blockResults |-> st.blockResults @@ (b :> r.result)]

\* The callback of op.walk, on the walk's state st = [func, result, blockResults]:
\* the body of an async.execute is passed over, any other block is rewritten.
WalkCallback(st, b) ==
  IF st.func.blocks[b].parent # NoOp /\ st.func.ops[st.func.blocks[b].parent].kind = "exec"
    THEN st
    ELSE LET r == matchAndRewriteBlock(st.func, b)
         IN [func |-> r.func, result |-> st.result \/ r.result,
             blockResults |-> st.blockResults @@ (b :> r.result)]

\* op.walk over the blocks under the FuncOp: the blocks nested in a block's
\* operations are visited before the block itself.
RECURSIVE WalkBlocks(_, _), WalkOps(_, _)
WalkBlocks(st, bs) ==
  IF bs = <<>> THEN st
  ELSE LET b == Head(bs)
           st1 == WalkOps(st, st.func.blocks[b].ops)
       IN WalkBlocks(WalkCallback(st1, b), Tail(bs))
WalkOps(st, os) ==
  IF os = <<>> THEN st
  ELSE WalkOps(WalkBlocks(st, st.func.ops[Head(os)].region), Tail(os))

\* WrapInAsyncExecPattern::matchAndRewrite
WrapInAsyncExec ==
  /\ attempts < MaxAttempts
  /\ LET st == WalkBlocks([func |-> func, result |-> FALSE, blockResults |-> <<>>],
                          func.body)
     IN /\ func' = st.func
        /\ result' = st.result
        /\ blockResults' = st.blockResults
        /\ rootUpdate' = IF st.result THEN "finalized" ELSE "cancelled"
  /\ pattern' = "WrapInAsyncExec"
  /\ reason' = ""
  /\ pre' = func
  /\ root' = NoOp
  /\ attempts' = attempts + 1
  /\ UNCHANGED <<target, mean>>

(* ------------------- inputs of the extraction attempts ---------------- *)

\* The operations of a block built from their kinds; each takes the result of
\* the operation before it.  A "region.op" holds one nested block of the
\* kinds in nested.
RECURSIVE BuildOps(_, _, _, _)
BuildOps(f, b, kinds, nested) ==
  IF kinds = <<>> THEN f
  ELSE LET L == f.blocks[b].ops
           operands == IF L = <<>> THEN <<>> ELSE <<Res(L[Len(L)])>>
           o  == f.nextOp
           f1 == AppendOp(f, b, MkOp(Head(kinds), operands, "other"))
       IN IF Head(kinds) = "region.op"
            THEN LET f2 == AddBlock(f1, <<>>, o)
                     f3 == BuildOps(f2, f1.nextBlock, nested \o <<"yield">>, <<>>)
                 IN BuildOps(f3, b, Tail(kinds), nested)
            ELSE BuildOps(f1, b, Tail(kinds), nested)

BuildFunc(entry, second, nested) ==
  LET f0 == AddBlock(EmptyFunc(<<>>, <<>>), <<>>, NoOp)
  IN IF second = <<"none">>
       THEN BuildOps(f0, 1, entry \o <<"return">>, nested)
       ELSE LET f1 == BuildOps(f0, 1, entry \o <<"br">>, nested)
                f2 == AddBlock(f1, <<>>, NoOp)
            IN BuildOps(f2, f1.nextBlock, second \o <<"return">>, nested)

EntryShapes == SeqsUpTo({"wrap.op", "other.op", "region.op"}, MaxBlockOps)

SecondShapes == {<<"none">>, <<>>, <<"wrap.op", "other.op">>, <<"other.op", "wrap.op">>}

NestedShapes == {<<"wrap.op">>, <<"wrap.op", "other.op", "wrap.op">>}

\* The targets: "wrap.op" is legal and "other.op" is not; the terminators,
\* the region operation and async.execute are legal or not.
Targets ==
  {{"wrap.op"} \cup t \cup r \cup e :
     t \in {{}, {"return", "br", "yield", "tfrt.return"}},
     r \in {{}, {"region.op"}},
     e \in {{}, {"exec"}}}

InitWrap ==
  /\ \E entry \in EntryShapes, second \in SecondShapes, nested \in NestedShapes :
       /\ ("region.op" \notin Range(entry)) => nested = <<"wrap.op">>
       /\ func = BuildFunc(entry, second, nested)
  /\ target \in Targets
  /\ pattern = ""
  /\ result = FALSE
  /\ reason = ""
  /\ rootUpdate = "none"
  /\ blockResults = <<>>
  /\ pre = func
  /\ root = NoOp
  /\ attempts = 0
  /\ mean = NoMean

NextWrap == WrapInAsyncExec

SpecWrap == InitWrap /\ [][NextWrap]_vars

(* ------------------------ extraction: the claims ---------------------- *)

Wrapped == pattern = "WrapInAsyncExec"

\* The blocks the last walk handed to matchAndRewriteBlock.
Scanned == DOMAIN blockResults

\* The maximal runs <<p, q>> of consecutive legal operations of block b of f.
MaximalRuns(f, b) ==
  LET L == f.blocks[b].ops
      Legal(i) == f.ops[L[i]].kind \in target
  IN {r \in (DOMAIN L) \X (DOMAIN L) :
        /\ r[1] <= r[2]
        /\ \A i \in r[1]..r[2] : Legal(i)
        /\ r[1] = 1 \/ ~Legal(r[1] - 1)
        /\ r[2] = Len(L) \/ ~Legal(r[2] + 1)}

\* The async.execute operations the last attempt created.
NewExecs == {e \in DOMAIN func.ops \ DOMAIN pre.ops : func.ops[e].kind = "exec"}

\* The operations of the body of async.execute e, its terminator left out.
BodyOps(e) ==
  LET L == func.blocks[func.ops[e].region[1]].ops IN SubSeq(L, 1, Len(L) - 1)

\* The new async.execute operations of block b that hold exactly the run r.
Capturing(b, r) ==
  {e \in NewExecs : /\ e \in Range(func.blocks[b].ops)
                    /\ BodyOps(e) = SubSeq(pre.blocks[b].ops, r[1], r[2])}

\* C1 as stated: after an extraction attempt every maximal run of legal
\* operations of every scanned block, a run still open at the end of the
\* block included, is held by exactly one new async.execute.
C1_EveryRunCaptured ==
  Wrapped =>
    \A b \in Scanned : \A r \in MaximalRuns(pre, b) : Cardinality(Capturing(b, r)) = 1

\* C1 amended: every maximal run of legal operations that is followed by an
\* illegal operation of the same block is held by exactly one new
\* async.execute, standing where the run began; a run still open at the end
\* of the block is left where it was, in no async.execute.
C1_ClosedRunsCaptured ==
  Wrapped =>
    \A b \in Scanned : \A r \in MaximalRuns(pre, b) :
      LET L == pre.blocks[b].ops
          N == func.blocks[b].ops
      IN IF r[2] < Len(L)
           THEN Cardinality(Capturing(b, r)) = 1
           ELSE /\ Capturing(b, r) = {}
                /\ Len(N) >= r[2] - r[1] + 1
                /\ SubSeq(N, Len(N) - (r[2] - r[1]), Len(N)) = SubSeq(L, r[1], r[2])

\* A block [legalA, legalB, illegalC, legalD, legal terminator] was rewritten:
\* the first run is wrapped, legalD and the terminator are not.
C1_Witness ==
  /\ Wrapped /\ result
  /\ \E b \in Scanned :
       LET L == pre.blocks[b].ops IN
       /\ Len(L) = 5
       /\ [i \in 1..5 |-> pre.ops[L[i]].kind \in target] = <<TRUE, TRUE, FALSE, TRUE, TRUE>>
       /\ Len(func.blocks[b].ops) = 4
       /\ func.ops[func.blocks[b].ops[1]].kind = "exec"
       /\ SubSeq(func.blocks[b].ops, 2, 4) = SubSeq(L, 3, 5)

\* C2: every async.execute the extractor creates holds exactly the operations
\* of one maximal run of consecutive legal operations of one block, in their
\* order: no illegal operation, no part of a run, no two runs.
C2_ExecIsOneMaximalRun ==
  Wrapped =>
    \A e \in NewExecs :
      /\ \A o \in Range(BodyOps(e)) : func.ops[o].kind \in target
      /\ \E b \in Scanned : \E r \in MaximalRuns(pre, b) :
           BodyOps(e) = SubSeq(pre.blocks[b].ops, r[1], r[2])

\* One attempt wrapped two runs of one block that an illegal operation separates.
C2_Witness ==
  /\ Wrapped
  /\ \E b \in Scanned : \E e1, e2 \in NewExecs :
       /\ e1 # e2
       /\ {e1, e2} \subseteq Range(func.blocks[b].ops)
       /\ Len(BodyOps(e1)) >= 2

AnySucceeded == \E b \in Scanned : blockResults[b]

AnyFailed == \E b \in Scanned : ~blockResults[b]

\* C3 as stated: if the sub-rewrite of any block failed, the function after
\* the attempt is the function before it.
C3_AnyFailureRestores == (Wrapped /\ AnyFailed) => func = pre

\* C3 amended: the function after the attempt is the function before it
\* exactly when the sub-rewrite of every block failed; as soon as one
\* succeeded the attempt succeeds and its mutations are kept, whether or not
\* other blocks failed, and a block whose sub-rewrite failed is itself unchanged.
C3_AllFailuresRestore ==
  Wrapped =>
    /\ AnySucceeded => (result /\ rootUpdate = "finalized" /\ func # pre)
    /\ ~AnySucceeded => func = pre
    /\ \A b \in Scanned : ~blockResults[b] => func.blocks[b] = pre.blocks[b]

\* An attempt in which one block was rewritten and a later one failed.
C3_Witness ==
  /\ Wrapped /\ func # pre
  /\ \E b1, b2 \in Scanned : b1 < b2 /\ blockResults[b1] /\ ~blockResults[b2]

\* C4: the attempt succeeds and finalizes the root update exactly when the
\* sub-rewrite of at least one block set the success flag; otherwise it
\* fails, the root update is cancelled and the function is as it was.
C4_CommitBySuccessFlag ==
  Wrapped =>
    /\ result <=> AnySucceeded
    /\ result => rootUpdate = "finalized"
    /\ ~result => (rootUpdate = "cancelled" /\ func = pre)

\* A failed attempt on a function that holds legal operations (a run that is
\* open at the end of its block).
C4_Witness ==
  /\ Wrapped /\ ~result /\ rootUpdate = "cancelled"
  /\ \E b \in Scanned : \E r \in MaximalRuns(pre, b) : r[2] - r[1] >= 1

\* The operations that enclose operation o of f, innermost first.
RECURSIVE Ancestors(_, _)
Ancestors(f, o) ==
  LET parent == ParentOp(f, o)
  IN IF parent = NoOp THEN <<>> ELSE <<parent>> \o Ancestors(f, parent)

\* The async.execute operations the function held before the attempt.
OldExecs == {e \in DOMAIN pre.ops : pre.ops[e].kind = "exec"}

\* C16 as stated: the body of an async.execute is never scanned, no
\* async.execute is created inside an async.execute that was already there,
\* and a repeated attempt does not nest the async.execute operations any
\* deeper: none that was already there ends up inside a new one.
C16_NoRescanNoNesting ==
  Wrapped =>
    /\ \A b \in Scanned : b \in DOMAIN pre.blocks =>
         (pre.blocks[b].parent = NoOp \/ pre.ops[pre.blocks[b].parent].kind # "exec")
    /\ \A e \in NewExecs : Range(Ancestors(func, e)) \cap OldExecs = {}
    /\ \A e \in OldExecs : Range(Ancestors(func, e)) \cap NewExecs = {}

\* The blocks of the function before the attempt that the walk rewrites:
\* those that are not the body of an async.execute.
ScannedOfPre ==
  {b \in DOMAIN pre.blocks :
     pre.blocks[b].parent = NoOp \/ pre.ops[pre.blocks[b].parent].kind # "exec"}

\* The runs of legal operations of the function before the attempt that an
\* illegal operation of their block follows.
ClosedRuns ==
  {<<b, r>> \in UNION {{b} \X MaximalRuns(pre, b) : b \in ScannedOfPre} :
     r[2] < Len(pre.blocks[b].ops)}

\* C17: an attempt on a function in which no block has a run of legal
\* operations that gets wrapped creates no async.execute, fails with the
\* root update cancelled and leaves the function as it was; and no
\* async.execute is ever created around an empty run.
C17_NothingToExtract ==
  Wrapped =>
    /\ ClosedRuns = {} =>
         (NewExecs = {} /\ ~result /\ rootUpdate = "cancelled" /\ func = pre)
    /\ \A e \in NewExecs : BodyOps(e) # <<>>
    /\ Cardinality(NewExecs) = Cardinality(ClosedRuns)

\* A failed attempt on a function of illegal operations only, an illegal
\* terminator included: every operation ends an empty run.
C17_Witness ==
  /\ Wrapped /\ ~result /\ func = pre
  /\ \A b \in DOMAIN pre.blocks : \A r \in MaximalRuns(pre, b) : FALSE
  /\ \E b \in DOMAIN pre.blocks : Len(pre.blocks[b].ops) >= 3

\* The operations of a block with every async.execute the attempt created
\* replaced by the operations of its body.
RECURSIVE Flatten(_)
Flatten(os) ==
  IF os = <<>> THEN <<>>
  ELSE IF Head(os) \in NewExecs
    THEN BodyOps(Head(os)) \o Flatten(Tail(os))
    ELSE <<Head(os)>> \o Flatten(Tail(os))

\* C19: after an attempt every block of the function, with each new
\* async.execute replaced by its body, is the sequence of operations it was
\* before; each new async.execute stands where the first operation of its
\* run stood, before the illegal operation that ended the run; and every
\* operation that was there has the operands and the regions it had.
C19_ProgramOrderKept ==
  Wrapped =>
    /\ \A b \in DOMAIN pre.blocks : Flatten(func.blocks[b].ops) = pre.blocks[b].ops
    /\ \A o \in DOMAIN pre.ops : o \in DOMAIN func.ops /\ func.ops[o] = pre.ops[o]
    /\ \A e \in NewExecs :
         LET b == BlockOf(func, e)
             N == func.blocks[b].ops
             i == Index(N, e)
         IN /\ b \in DOMAIN pre.blocks
            /\ i < Len(N)
            /\ N[i + 1] \notin NewExecs
            /\ Index(pre.blocks[b].ops, N[i + 1])
                 = Index(pre.blocks[b].ops, BodyOps(e)[1]) + Len(BodyOps(e))

\* An attempt wrapped a run of two operations that begins after an illegal
\* operation and whose second operation takes the result of the first.
C19_Witness ==
  /\ Wrapped /\ result
  /\ \E e \in NewExecs :
       LET b == BlockOf(func, e) IN
       /\ Len(BodyOps(e)) = 2
       /\ Index(func.blocks[b].ops, e) = 2
       /\ Index(pre.blocks[b].ops, BodyOps(e)[1]) = 2
       /\ func.ops[BodyOps(e)[2]].operands = <<Res(BodyOps(e)[1])>>

(* ----------------------- SignatureRewritePattern ---------------------- *)

\* Every use of a value in DOMAIN repl replaced by repl of it.
ReplaceUses(f, repl) ==
  [f EXCEPT !.ops = [o \in DOMAIN f.ops |->
     [f.ops[o] EXCEPT !.operands =
        [i \in DOMAIN @ |-> IF @[i] \in DOMAIN repl THEN repl[@[i]] ELSE @[i]]]]]

\* rewriter.createBlock(insertBefore, argTypes): a new block of the function
\* body, placed before insertBefore.  Operations created next go to its end.
CreateBlockBefore(f, insertBefore, argTypes) ==
  LET b == f.nextBlock
      p == Index(f.body, insertBefore)
  IN [f EXCEPT !.blocks = @ @@ (b :> [ops |-> <<>>, args |-> argTypes, parent |-> NoOp]),
               !.nextBlock = @ + 1,
               !.body = SubSeq(@, 1, p - 1) \o <<b>> \o SubSeq(@, p, Len(@))]

\* rewriter.mergeBlocks(source, dest, argValues): the operations of source go
\* to the end of dest, argValues replace the arguments of source, and source
\* is erased.
MergeBlocks(f, source, dest, argValues) ==
  LET repl == [v \in {Arg(source, i) : i \in DOMAIN f.blocks[source].args} |->
                 argValues[v.idx]]
      f1 == ReplaceUses(f, repl)
  IN [f1 EXCEPT !.blocks = [b \in DOMAIN f.blocks \ {source} |->
                              IF b = dest
                                THEN [f.blocks[b] EXCEPT !.ops = @ \o f.blocks[source].ops]
                                ELSE f.blocks[b]],
                !.body = SelectSeq(@, LAMBDA b : b # source)]

\* HasResults letting a single result through.
HasResults_MoreThanOne(f) == Len(f.results) > 1

\* op.getNumResults() > 0
HasResults(f) == Len(f.results) > 0

\* NewFunctionType without the chain result.
NewFunctionType_NoResult(f) ==
  [inputs |-> <<"chain", "stream">> \o f.inputs, results |-> <<>>]

\* The function type set by op.setType: (chain, stream, old inputs...) -> chain.
NewFunctionType(f) ==
  [inputs |-> <<"chain", "stream">> \o f.inputs, results |-> <<"chain">>]

\* DropFrontArgs dropping one argument only.
DropFrontArgs_One(entry, n) == [i \in 1..n |-> Arg(entry, i + 1)]

\* block_args.drop_front(2): the arguments of the new entry block that stand
\* for the n arguments of the old one.
DropFrontArgs(entry, n) == [i \in 1..n |-> Arg(entry, i + 2)]

\* SignatureRewritePattern::matchAndRewrite
SignatureRewritePattern(f) ==
  IF HasResults(f)
    THEN [func |-> f, result |-> FALSE, reason |-> "Expected no result"]
    ELSE
      LET type  == NewFunctionType(f)
          f1    == [f EXCEPT !.inputs = type.inputs, !.results = type.results]
          block == f.body[1]
          entry == f1.nextBlock
          f2    == CreateBlockBefore(f1, block, type.inputs)
          f3    == MergeBlocks(f2, block, entry,
                               DropFrontArgs(entry, Len(f.blocks[block].args)))
          terminator == Terminator(f3, f3.body[Len(f3.body)])
          \* the new return is created where createBlock left the insertion
          \* point, at the end of the entry block
          f4    == AppendOp(f3, entry, MkOp("tfrt.return", <<Arg(entry, 1)>>, "none"))
      IN [func |-> EraseOp(f4, terminator), result |-> TRUE, reason |-> ""]

\* The dynamic legality of FuncOp set in populateTfrtConversionPatterns.
isLegalFuncOp(f) ==
  /\ Len(f.results) = 1
  /\ f.results[1] = "chain"
  /\ Len(f.inputs) >= 2
  /\ f.inputs[1] = "chain"
  /\ f.inputs[2] = "stream"

SignatureRewrite ==
  /\ attempts < MaxAttempts
  /\ LET r == SignatureRewritePattern(func)
     IN /\ func' = r.func
        /\ result' = r.result
        /\ reason' = r.reason
  /\ pattern' = "SignatureRewrite"
  /\ pre' = func
  /\ root' = NoOp
  /\ attempts' = attempts + 1
  /\ UNCHANGED <<target, rootUpdate, blockResults, mean>>

(* ------------------- inputs of the signature rewrite ------------------ *)

\* One "other.op" per element of uses, taking that parameter of the function.
RECURSIVE BuildUses(_, _, _)
BuildUses(f, b, uses) ==
  IF uses = <<>> THEN f
  ELSE BuildUses(AppendOp(f, b, MkOp("other.op", <<Arg(b, Head(uses))>>, "other")),
                 b, Tail(uses))

\* A function of the given signature whose entry block uses its parameters as
\* uses says.  A function with results returns values made by a "const.op".
\* With two blocks the entry block branches to the block that returns.
BuildSigFunc(inputs, results, uses, nblocks) ==
  LET f0 == AddBlock(EmptyFunc(inputs, results), inputs, NoOp)
      f1 == BuildUses(f0, 1, uses)
      f2 == IF nblocks = 1 THEN f1
            ELSE AddBlock(AppendOp(f1, 1, MkOp("br", <<>>, "none")), <<>>, NoOp)
      last == f2.body[Len(f2.body)]
  IN IF results = <<>>
       THEN AppendOp(f2, last, MkOp("return", <<>>, "none"))
       ELSE LET c  == f2.nextOp
                f3 == AppendOp(f2, last, MkOp("const.op", <<>>, results[1]))
            IN AppendOp(f3, last, MkOp("return", [i \in DOMAIN results |-> Res(c)], "none"))

SigResults == {<<>>, <<"chain">>, <<"other">>, <<"chain", "chain">>}

InitSig ==
  /\ \E inputs \in SeqsUpTo({"chain", "stream", "other"}, MaxParams),
        results \in SigResults, nblocks \in 1..2 :
       \E uses \in SeqsUpTo(DOMAIN inputs, 2) :
         func = BuildSigFunc(inputs, results, uses, nblocks)
  /\ target = {}
  /\ pattern = ""
  /\ result = FALSE
  /\ reason = ""
  /\ rootUpdate = "none"
  /\ blockResults = <<>>
  /\ pre = func
  /\ root = NoOp
  /\ attempts = 0
  /\ mean = NoMean

NextSig == SignatureRewrite

SpecSig == InitSig /\ [][NextSig]_vars

(* --------------------- signature rewrite: the claims ------------------ *)

SigRewritten == pattern = "SignatureRewrite"

\* C5: a function whose signature is in target form is classified as
\* converted and a further signature rewrite leaves it untouched, and the
\* function a successful rewrite yields is in target form: rewriting twice
\* gives what rewriting once gives.
C5_TargetFormIsFixedPoint ==
  SigRewritten =>
    /\ isLegalFuncOp(pre) => (~result /\ func = pre)
    /\ result => isLegalFuncOp(func)

\* The rewrite was applied a second time, to the function the first
\* application had rewritten.
C5_Witness ==
  /\ SigRewritten /\ attempts = 2 /\ ~result
  /\ isLegalFuncOp(pre) /\ func = pre
  /\ Len(func.inputs) = 4

\* The operands of operation o of the function before the rewrite, every
\* old parameter i taken as the new parameter i + 2.
Shifted(o) ==
  [i \in DOMAIN pre.ops[o].operands |->
     LET v == pre.ops[o].operands[i]
     IN IF v.def = "arg" /\ v.id = pre.body[1]
          THEN Arg(func.body[1], v.idx + 2) ELSE v]

C7_ResultsRejected ==
  (SigRewritten /\ Len(pre.results) >= 1) =>
    (~result /\ reason = "Expected no result" /\ func = pre)

\* A function with one result that is not in target form was rejected.
C7_Witness ==
  /\ SigRewritten /\ ~result /\ reason = "Expected no result"
  /\ Len(pre.results) = 1 /\ ~isLegalFuncOp(pre)

(* ------------------------- WaitOpRewritePattern ----------------------- *)

\* An operation created by the rewriter, whose insertion point is before op.
\* Its number is f.nextOp.
CreateBefore(f, op, new) ==
  LET b == BlockOf(f, op) IN InsertOp(f, b, Index(f.blocks[b].ops, op), new)

\* op->getParentOfType: whether an operation of that kind encloses op.
RECURSIVE HasParentOfType(_, _, _)
HasParentOfType(f, op, kind) ==
  LET parent == ParentOp(f, op)
  IN /\ parent # NoOp
     /\ \/ f.ops[parent].kind = kind
        \/ HasParentOfType(f, parent, kind)

\* GetDefiningCastOp: the cast that defines v if it casts a chain and a
\* stream, NoOp otherwise.
GetDefiningCastOp(f, v) ==
  IF /\ v.def = "op"
     /\ f.ops[v.id].kind = "cast"
     /\ Len(f.ops[v.id].operands) = 2
     /\ TypeOf(f, f.ops[v.id].operands[1]) = "chain"
     /\ TypeOf(f, f.ops[v.id].operands[2]) = "stream"
    THEN v.id ELSE NoOp

\* The check that the parent function has chain and stream arguments.
HasChainAndStreamArgs(f) ==
  /\ Len(f.inputs) >= 2
  /\ f.inputs[1] = "chain"
  /\ f.inputs[2] = "stream"

\* ReturnsChain accepting a first operand of any type.
ReturnsChain_AnyOperand(f) ==
  LET terminator == Terminator(f, f.body[Len(f.body)])
  IN Len(f.ops[terminator].operands) >= 1

\* The check that the parent function returns a chain.
ReturnsChain(f) ==
  LET terminator == Terminator(f, f.body[Len(f.body)])
  IN /\ Len(f.ops[terminator].operands) >= 1
     /\ TypeOf(f, f.ops[terminator].operands[1]) = "chain"

\* ClassifyOperands keeping the chain and the stream it began with.
RECURSIVE ClassifyOperands_KeepParams(_, _, _)
ClassifyOperands_KeepParams(f, operands, st) ==
  IF operands = <<>> THEN st
  ELSE LET operand == Head(operands)
           cast_op == GetDefiningCastOp(f, operand)
       IN IF TypeOf(f, operand) = "event"
            THEN ClassifyOperands_KeepParams(f, Tail(operands),
                                  [st EXCEPT !.events = Append(@, operand)])
          ELSE IF cast_op # NoOp
            THEN ClassifyOperands_KeepParams(f, Tail(operands),
                                  [st EXCEPT !.erased = @ \cup {cast_op}])
          ELSE [st EXCEPT !.ok = FALSE]

\* The loop over the operands: events are collected, a cast to token gives
\* the chain and the stream and is erased, anything else ends the loop.
\* st = [chain, stream, events, erased, ok].
RECURSIVE ClassifyOperands(_, _, _)
ClassifyOperands(f, operands, st) ==
  IF operands = <<>> THEN st
  ELSE LET operand == Head(operands)
           cast_op == GetDefiningCastOp(f, operand)
       IN IF TypeOf(f, operand) = "event"
            THEN ClassifyOperands(f, Tail(operands),
                                  [st EXCEPT !.events = Append(@, operand)])
          ELSE IF cast_op # NoOp
            THEN ClassifyOperands(f, Tail(operands),
                                  [st EXCEPT !.chain = f.ops[cast_op].operands[1],
                                             !.stream = f.ops[cast_op].operands[2],
                                             !.erased = @ \cup {cast_op}])
          ELSE [st EXCEPT !.ok = FALSE]

\* MoreThanOneToken letting two tokens through.
MoreThanOneToken_OffByOne(numEvents, numOperands) == numEvents + 2 < numOperands

\* events.size() + 1 < op->getNumOperands()
MoreThanOneToken(numEvents, numOperands) == numEvents + 1 < numOperands

\* NewChainAndStream going on with the stream it was given.
NewChainAndStream_AmbientStream(c, op) ==
  LET f1      == CreateBefore(c.func, op, MkOp("tfrt.new.chain", <<>>, "chain"))
      chain   == Res(c.func.nextOp)
      f2      == CreateBefore(f1, op, MkOp("stream.get_context", <<c.stream>>, "context"))
      context == Res(f1.nextOp)
      f3      == CreateBefore(f2, op, MkOp("event.create", <<context>>, "event"))
      event   == Res(f2.nextOp)
      f4      == CreateBefore(f3, op, MkOp("event.record", <<event, c.stream, chain>>, "chain"))
      g       == IF c.events = <<>> THEN f4 ELSE f2
      f5      == CreateBefore(g, op, MkOp("stream.create", <<context>>, "stream"))
  IN [func   |-> f5,
      chain  |-> IF c.events = <<>> THEN Res(f3.nextOp) ELSE chain,
      stream |-> c.stream,
      events |-> IF c.events = <<>> THEN <<event>> ELSE c.events]

\* 'gpu.wait async' inside 'async.execute': a new chain, the context of the
\* stream, an event recorded on the stream if there are no event operands,
\* and a new stream.  c = [func, chain, stream, events].
NewChainAndStream(c, op) ==
  LET f1      == CreateBefore(c.func, op, MkOp("tfrt.new.chain", <<>>, "chain"))
      chain   == Res(c.func.nextOp)
      f2      == CreateBefore(f1, op, MkOp("stream.get_context", <<c.stream>>, "context"))
      context == Res(f1.nextOp)
      f3      == CreateBefore(f2, op, MkOp("event.create", <<context>>, "event"))
      event   == Res(f2.nextOp)
      f4      == CreateBefore(f3, op, MkOp("event.record", <<event, c.stream, chain>>, "chain"))
      g       == IF c.events = <<>> THEN f4 ELSE f2
      f5      == CreateBefore(g, op, MkOp("stream.create", <<context>>, "stream"))
  IN [func   |-> f5,
      chain  |-> IF c.events = <<>> THEN Res(f3.nextOp) ELSE chain,
      stream |-> Res(g.nextOp),
      events |-> IF c.events = <<>> THEN <<event>> ELSE c.events]

\* SynchronizeEvents giving every wait the chain the loop began with.
RECURSIVE SynchronizeEvents_SameChain(_, _, _, _, _)
SynchronizeEvents_SameChain(f, op, stream, events, chain) ==
  IF events = <<>> THEN [func |-> f, chain |-> chain]
  ELSE LET f1 == CreateBefore(f, op, MkOp("stream.wait", <<stream, Head(events), chain>>, "chain"))
           r  == SynchronizeEvents_SameChain(f1, op, stream, Tail(events), chain)
       IN [func |-> r.func, chain |-> Res(f.nextOp)]

\* The loop that synchronizes the stream with the events, each wait taking
\* the chain of the step before.  Gives [func, chain].
RECURSIVE SynchronizeEvents(_, _, _, _, _)
SynchronizeEvents(f, op, stream, events, chain) ==
  IF events = <<>> THEN [func |-> f, chain |-> chain]
  ELSE LET f1 == CreateBefore(f, op, MkOp("stream.wait", <<stream, Head(events), chain>>, "chain"))
       IN SynchronizeEvents(f1, op, stream, Tail(events), Res(f.nextOp))

\* ReplaceWait leaving the terminator of the function as it was.
ReplaceWait_KeepTerminator(f, op, chain, stream) ==
  IF f.ops[op].rtype = "token"
    THEN LET f1 == CreateBefore(f, op, MkOp("cast", <<chain, stream>>, "token"))
             f2 == ReplaceUses(f1, (Res(op) :> Res(f.nextOp)))
         IN EraseOp(f2, op)
    ELSE EraseOp(f, op)

\* The end of the rewrite: 'gpu.wait async' is replaced by a cast of the
\* chain and the stream to a token; otherwise operand 0 of the terminator of
\* the function becomes the chain and the wait is erased.
ReplaceWait(f, op, chain, stream) ==
  IF f.ops[op].rtype = "token"
    THEN LET f1 == CreateBefore(f, op, MkOp("cast", <<chain, stream>>, "token"))
             f2 == ReplaceUses(f1, (Res(op) :> Res(f.nextOp)))
         IN EraseOp(f2, op)
    ELSE LET terminator == Terminator(f, f.body[Len(f.body)])
         IN EraseOp([f EXCEPT !.ops[terminator].operands[1] = chain], op)

RECURSIVE EraseOps(_, _)
EraseOps(f, os) ==
  IF os = {} THEN f
  ELSE LET o == CHOOSE x \in os : TRUE IN EraseOps(EraseOp(f, o), os \ {o})

\* WaitOpRewritePattern::matchAndRewrite on the gpu.wait op of f.  Gives the
\* function as the rewriter holds it when the pattern returns.
WaitOpRewritePattern(f, op) ==
  IF ~HasChainAndStreamArgs(f)
    THEN [func |-> f, result |-> FALSE,
          reason |-> "not in func with chain and stream argument"]
  ELSE IF ~ReturnsChain(f)
    THEN [func |-> f, result |-> FALSE, reason |-> "not in func returning chain"]
  ELSE
    LET operands == f.ops[op].operands
        st == ClassifyOperands(f, operands,
                [chain |-> Arg(f.body[1], 1), stream |-> Arg(f.body[1], 2),
                 events |-> <<>>, erased |-> {}, ok |-> TRUE])
        erased == EraseOps(f, st.erased)
    IN IF ~st.ok
         THEN [func |-> erased, result |-> FALSE,
               reason |-> "expected event or cast to token"]
       ELSE IF MoreThanOneToken(Len(st.events), Len(operands))
         THEN [func |-> erased, result |-> FALSE,
               reason |-> "more than one token operand"]
       ELSE
         LET c0 == [func |-> f, chain |-> st.chain, stream |-> st.stream,
                    events |-> st.events]
             c1 == IF f.ops[op].rtype = "token" /\ HasParentOfType(f, op, "async.execute")
                     THEN NewChainAndStream(c0, op) ELSE c0
             c2 == SynchronizeEvents(c1.func, op, c1.stream, c1.events, c1.chain)
         IN [func |-> EraseOps(ReplaceWait(c2.func, op, c2.chain, c1.stream), st.erased),
             result |-> TRUE, reason |-> ""]

\* What the conversion keeps of a pattern's work: everything when the
\* pattern succeeded, nothing when it failed.
RollbackOnFailure(f, r) == IF r.result THEN r.func ELSE f

WaitOps(f) == {o \in DOMAIN f.ops : f.ops[o].kind = "gpu.wait"}

WaitOpRewrite ==
  /\ attempts < MaxAttempts
  /\ \E op \in WaitOps(func) :
       LET r == WaitOpRewritePattern(func, op)
       IN /\ func' = RollbackOnFailure(func, r)
          /\ result' = r.result
          /\ reason' = r.reason
          /\ root' = op
  /\ pattern' = "WaitOpRewrite"
  /\ pre' = func
  /\ attempts' = attempts + 1
  /\ UNCHANGED <<target, rootUpdate, blockResults, mean>>

(* ---------------------- inputs of the wait lowering ------------------- *)

\* The values a gpu.wait of the inputs can take: two events, three tokens
\* cast from their own chain and stream, and a token cast from an event.
\* They are the results of the first operations of the entry block.
Prelude ==
  <<MkOp("make.event", <<>>, "event"),   MkOp("make.event", <<>>, "event"),
    MkOp("make.chain", <<>>, "chain"),   MkOp("make.stream", <<>>, "stream"),
    MkOp("cast", <<Res(3), Res(4)>>, "token"),
    MkOp("make.chain", <<>>, "chain"),   MkOp("make.stream", <<>>, "stream"),
    MkOp("cast", <<Res(6), Res(7)>>, "token"),
    MkOp("make.chain", <<>>, "chain"),   MkOp("make.stream", <<>>, "stream"),
    MkOp("cast", <<Res(9), Res(10)>>, "token"),
    MkOp("cast", <<Res(1)>>, "token"),
    MkOp("other.op", <<>>, "other")>>

Named(name) ==
  CASE name = "e1" -> Res(1)
    [] name = "e2" -> Res(2)
    [] name = "t1" -> Res(5)
    [] name = "t2" -> Res(8)
    [] name = "t3" -> Res(11)
    [] name = "bad" -> Res(12)
    [] name = "other" -> Res(13)

RECURSIVE AppendOps(_, _, _)
AppendOps(f, b, new) ==
  IF new = <<>> THEN f ELSE AppendOps(AppendOp(f, b, Head(new)), b, Tail(new))

SigInputs(kind) ==
  CASE kind = "one_arg" -> <<"chain">>
    [] kind = "swapped" -> <<"stream", "chain">>
    [] OTHER -> <<"chain", "stream">>

ReturnOperands(kind) ==
  CASE kind = "ret_none" -> <<>>
    [] kind = "ret_other" -> <<Named("other")>>
    [] kind = "swapped" -> <<Arg(1, 2)>>
    [] OTHER -> <<Arg(1, 1)>>

WaitOpOf(w) ==
  MkOp("gpu.wait", [i \in DOMAIN w.operands |-> Named(w.operands[i])],
       IF w.async THEN "token" ELSE "none")

\* A function whose entry block holds the prelude, an async.execute with
\* the waits that are inside one (and an async.yield of their tokens), a
\* tfrt_gpu_conversion.async.execute with the waits that are inside one, the
\* other waits, and the return.
BuildWaitFunc(kind, waits) ==
  LET f0 == AddBlock(EmptyFunc(SigInputs(kind), <<"chain">>), SigInputs(kind), NoOp)
      f1 == AppendOps(f0, 1, Prelude)
      inside  == SelectSeq(waits, LAMBDA w : w.inExec)
      wrapped == SelectSeq(waits, LAMBDA w : ~w.inExec /\ w.conv)
      outside == SelectSeq(waits, LAMBDA w : ~w.inExec /\ ~w.conv)
      exec == f1.nextOp
      body == f1.nextBlock
      f2 == AddBlock(AppendOp(f1, 1, MkOp("async.execute", <<>>, "token")), <<>>, exec)
      f3 == AppendOps(f2, body, [i \in DOMAIN inside |-> WaitOpOf(inside[i])])
      yielded == SelectSeq([i \in DOMAIN inside |-> f2.nextOp + i - 1],
                           LAMBDA o : f3.ops[o].rtype = "token")
      f4 == AppendOp(f3, body, MkOp("async.yield",
                                    [i \in DOMAIN yielded |-> Res(yielded[i])], "none"))
      f5 == IF inside = <<>> THEN f1 ELSE f4
      conv == f5.nextOp
      cbody == f5.nextBlock
      c1 == AddBlock(AppendOp(f5, 1, MkOp("exec", <<>>, "none")), <<"chain", "stream">>, conv)
      c2 == AppendOps(c1, cbody, [i \in DOMAIN wrapped |-> WaitOpOf(wrapped[i])])
      c3 == AppendOp(c2, cbody, MkOp("tfrt.return", <<Arg(cbody, 1)>>, "none"))
      c4 == IF wrapped = <<>> THEN f5 ELSE c3
      f6 == AppendOps(c4, 1, [i \in DOMAIN outside |-> WaitOpOf(outside[i])])
  IN AppendOp(f6, 1, MkOp("tfrt.return", ReturnOperands(kind), "none"))

FuncKinds == {"ok", "one_arg", "swapped", "ret_none", "ret_other"}

FirstWaits ==
  {w \in [async : BOOLEAN, inExec : BOOLEAN, conv : BOOLEAN,
          operands : SeqsUpTo({"e1", "e2", "t1", "t2", "bad"}, MaxWaitOperands)] :
     ~(w.inExec /\ w.conv)}

SecondWaits ==
  {<<>>,
   <<[async |-> FALSE, inExec |-> FALSE, conv |-> FALSE, operands |-> <<"e2">>]>>,
   <<[async |-> FALSE, inExec |-> FALSE, conv |-> FALSE, operands |-> <<"t3", "e1">>]>>,
   <<[async |-> TRUE, inExec |-> TRUE, conv |-> FALSE, operands |-> <<>>]>>}

InitWait ==
  /\ \E kind \in FuncKinds, w1 \in FirstWaits, w2 \in SecondWaits :
       func = BuildWaitFunc(kind, <<w1>> \o w2)
  /\ target = {}
  /\ pattern = ""
  /\ result = FALSE
  /\ reason = ""
  /\ rootUpdate = "none"
  /\ blockResults = <<>>
  /\ pre = func
  /\ root = NoOp
  /\ attempts = 0
  /\ mean = NoMean

NextWait == WaitOpRewrite

SpecWait == InitWait /\ [][NextWait]_vars

(* ------------------------ wait lowering: the claims ------------------- *)

WaitLowered == pattern = "WaitOpRewrite"

\* The operations the last pattern created.
NewOps == DOMAIN func.ops \ DOMAIN pre.ops

NewOfKind(kind) == {o \in NewOps : func.ops[o].kind = kind}

\* The operands the lowered wait had, its event operands, and the positions
\* of its token operands (casts of a chain and a stream).
WaitOperands == pre.ops[root].operands

WaitEvents == SelectSeq(WaitOperands, LAMBDA v : TypeOf(pre, v) = "event")

IsToken(v) ==
  /\ v.def = "op"
  /\ pre.ops[v.id].kind = "cast"
  /\ [i \in DOMAIN pre.ops[v.id].operands |-> TypeOf(pre, pre.ops[v.id].operands[i])]
       = <<"chain", "stream">>

TokenPositions == {i \in DOMAIN WaitOperands : IsToken(WaitOperands[i])}

WaitAsync == pre.ops[root].rtype = "token"

WaitInExec == HasParentOfType(pre, root, "async.execute")

\* The ambient chain and stream of the lowered wait: those its token was cast
\* from, or parameters 0 and 1 of the function when it has no token.
Ambient ==
  IF TokenPositions = {}
    THEN [chain |-> Arg(pre.body[1], 1), stream |-> Arg(pre.body[1], 2)]
    ELSE LET cast == WaitOperands[CHOOSE i \in TokenPositions : TRUE].id
         IN [chain |-> pre.ops[cast].operands[1], stream |-> pre.ops[cast].operands[2]]

\* v is u or is computed from u: u reaches v along def-use edges.
RECURSIVE Downstream(_, _, _)
Downstream(f, v, u) ==
  \/ v = u
  \/ /\ v.def = "op"
     /\ \E i \in DOMAIN f.ops[v.id].operands : Downstream(f, f.ops[v.id].operands[i], u)

\* The chain the lowering ends with: the chain of the cast that replaces an
\* async wait, else operand 0 of the function's terminator.
FinalChain ==
  IF WaitAsync
    THEN func.ops[CHOOSE o \in NewOfKind("cast") : TRUE].operands[1]
    ELSE func.ops[Terminator(func, func.body[Len(func.body)])].operands[1]

\* The stream.wait operations the lowering created, in block order.
NewWaits ==
  SelectSeq(func.blocks[BlockOf(pre, root)].ops,
            LAMBDA o : o \in NewOfKind("stream.wait"))

C9_RecordedAgainstAmbientChain ==
  (WaitLowered /\ result /\ WaitAsync /\ WaitInExec /\ WaitEvents = <<>>) =>
    /\ \A o \in NewOfKind("event.record") :
         /\ func.ops[o].operands[2] = Ambient.stream
         /\ func.ops[o].operands[3] = Ambient.chain
    /\ Downstream(func, FinalChain, Ambient.chain)

\* C10: the lowering creates one stream.wait per event operand (or one for
\* the event it made itself), all on the same stream, the new one if it made
\* one; each takes the chain of the stream.wait before it and the lowering
\* ends with the chain of the last, which is downstream of every event
\* operand.  An async wait on two events inside an async.execute gives one
\* new stream, two chained stream.wait, no event.record and a cast of the
\* last chain and the new stream.
C10_OneWaitPerEvent ==
  (WaitLowered /\ result) =>
    LET made == WaitAsync /\ WaitInExec /\ WaitEvents = <<>>
        n == Len(NewWaits)
        stream == IF WaitAsync /\ WaitInExec
                    THEN Res(CHOOSE o \in NewOfKind("stream.create") : TRUE)
                    ELSE Ambient.stream
    IN /\ Cardinality(NewOfKind("stream.wait")) = n
       /\ n = IF made THEN 1 ELSE Len(WaitEvents)
       /\ \A i \in 1..n : func.ops[NewWaits[i]].operands[1] = stream
       /\ ~made => \A i \in 1..n : func.ops[NewWaits[i]].operands[2] = WaitEvents[i]
       /\ made => func.ops[NewWaits[1]].operands[2] \in {Res(o) : o \in NewOfKind("event.create")}
       /\ \A i \in 2..n : func.ops[NewWaits[i]].operands[3] = Res(NewWaits[i - 1])
       /\ n >= 1 => FinalChain = Res(NewWaits[n])
       /\ \A i \in DOMAIN WaitEvents : Downstream(func, FinalChain, WaitEvents[i])
       /\ (WaitAsync /\ WaitInExec /\ Len(WaitEvents) = 2) =>
            /\ Cardinality(NewOfKind("stream.create")) = 1
            /\ n = 2
            /\ NewOfKind("event.record") = {}
            /\ Cardinality(NewOfKind("cast")) = 1
            /\ \A o \in NewOfKind("cast") :
                 func.ops[o].operands = <<Res(NewWaits[2]), stream>>

\* An async wait on two different events inside an async.execute was lowered.
C10_Witness ==
  /\ WaitLowered /\ result /\ WaitAsync /\ WaitInExec
  /\ Len(WaitEvents) = 2 /\ WaitEvents[1] # WaitEvents[2]
  /\ Len(NewWaits) = 2

\* The chain and the stream a successful lowering ends with, told from the
\* operations it created: the result of the last stream.wait (the ambient
\* chain if there is none) and the stream it created (the ambient stream if
\* it created none).
LastChain ==
  IF NewWaits = <<>> THEN Ambient.chain ELSE Res(NewWaits[Len(NewWaits)])

LastStream ==
  IF NewOfKind("stream.create") = {} THEN Ambient.stream
  ELSE Res(CHOOSE o \in NewOfKind("stream.create") : TRUE)

FuncTerminator(f) == Terminator(f, f.body[Len(f.body)])

\* C13: after a successful lowering an async wait is replaced by one cast of
\* the final chain and stream to a token, which takes over the uses of the
\* wait, and the terminator of the function is as it was; a wait that is not
\* async is erased without a replacement and operand 0 of the terminator of
\* the function is the final chain, its other operands as they were.
C13_CastOrTerminator ==
  (WaitLowered /\ result) =>
    /\ root \notin DOMAIN func.ops
    /\ FuncTerminator(func) = FuncTerminator(pre)
    /\ IF WaitAsync
         THEN /\ Cardinality(NewOfKind("cast")) = 1
              /\ \A o \in NewOfKind("cast") :
                   /\ func.ops[o].operands = <<LastChain, LastStream>>
                   /\ func.ops[o].rtype = "token"
                   /\ BlockOf(func, o) = BlockOf(pre, root)
                   /\ \A u \in DOMAIN func.ops \cap DOMAIN pre.ops :
                        \A i \in DOMAIN pre.ops[u].operands :
                          pre.ops[u].operands[i] = Res(root)
                            => func.ops[u].operands[i] = Res(o)
              /\ func.ops[FuncTerminator(func)] = pre.ops[FuncTerminator(pre)]
         ELSE /\ NewOfKind("cast") = {}
              /\ func.ops[FuncTerminator(func)].operands[1] = LastChain
              /\ func.ops[FuncTerminator(func)] =
                   [pre.ops[FuncTerminator(pre)] EXCEPT !.operands[1] = LastChain]

\* A wait on an event that is not async was lowered: the function now
\* returns the chain of the stream.wait.
C13_Witness ==
  /\ WaitLowered /\ result /\ ~WaitAsync
  /\ Len(NewWaits) = 1
  /\ func.ops[FuncTerminator(func)].operands[1] = Res(NewWaits[1])
  /\ pre.ops[FuncTerminator(pre)].operands[1] # Res(NewWaits[1])

\* C14: when the function of the wait does not begin with a chain and a
\* stream parameter, or its terminator does not return a chain as operand 0,
\* the lowering is a match failure with a reason and the function is as it
\* was: nothing is created, erased or modified.
C14_PreconditionsRejected ==
  LET inTargetForm == Len(pre.inputs) >= 2 /\ SubSeq(pre.inputs, 1, 2) = <<"chain", "stream">>
      returned     == pre.ops[FuncTerminator(pre)].operands
      returnsChain == returned # <<>> /\ TypeOf(pre, returned[1]) = "chain"
  IN
  (WaitLowered /\ (~inTargetForm \/ ~returnsChain)) =>
    /\ ~result
    /\ reason = (IF inTargetForm
                   THEN "not in func returning chain"
                   ELSE "not in func with chain and stream argument")
    /\ func = pre
    /\ NewOps = {}

\* A wait on an event in a function that returns a value that is not a
\* chain was rejected.
C14_Witness ==
  /\ WaitLowered /\ ~result
  /\ pre.inputs = <<"chain", "stream">>
  /\ Len(pre.ops[FuncTerminator(pre)].operands) = 1
  /\ TypeOf(pre, pre.ops[FuncTerminator(pre)].operands[1]) # "chain"
  /\ Len(WaitEvents) = 1 /\ TokenPositions = {}
  /\ reason = "not in func returning chain"

\* The chains and streams the operations created by the lowering take from
\* outside: operands of those types that the lowering did not create itself.
TakenFromOutside ==
  UNION {Range(func.ops[o].operands) : o \in NewOps} \cap
  {v \in UNION {{Res(o) : o \in DOMAIN pre.ops},
                {Arg(pre.body[1], i) : i \in DOMAIN pre.inputs}} :
     TypeOf(pre, v) \in {"chain", "stream"}}

\* C20: a successful lowering of a wait with one token operand works from
\* the chain and the stream the token was cast from and erases that cast; a
\* wait without a token operand works from parameters 0 and 1 of the
\* function.  The operations the lowering inserts take no other chain or
\* stream from outside; outside an async.execute the first stream.wait
\* takes the ambient chain, every stream.wait the ambient stream, and
\* without a stream.wait the ambient chain is the final chain; inside an
\* async.execute the context of the ambient stream is taken.
C20_AmbientPair ==
  (WaitLowered /\ result) =>
    /\ Cardinality(TokenPositions) <= 1
    /\ \A i \in TokenPositions : WaitOperands[i].id \notin DOMAIN func.ops
    /\ TakenFromOutside \subseteq {Ambient.chain, Ambient.stream}
    /\ IF WaitAsync /\ WaitInExec
         THEN \A o \in NewOfKind("stream.get_context") :
                func.ops[o].operands = <<Ambient.stream>>
         ELSE /\ \A i \in DOMAIN NewWaits :
                   func.ops[NewWaits[i]].operands[1] = Ambient.stream
              /\ NewWaits # <<>> => func.ops[NewWaits[1]].operands[3] = Ambient.chain
              /\ NewWaits = <<>> => FinalChain = Ambient.chain
              /\ WaitAsync =>
                   \A o \in NewOfKind("cast") : func.ops[o].operands[2] = Ambient.stream

\* A wait on an event and a token was lowered: its stream.wait takes the
\* chain and the stream of the cast, which are not the parameters of the
\* function, and the cast is gone.
C20_Witness ==
  /\ WaitLowered /\ result /\ ~WaitAsync
  /\ Len(WaitOperands) = 2 /\ Cardinality(TokenPositions) = 1
  /\ Ambient.chain # Arg(pre.body[1], 1)
  /\ Ambient.stream # Arg(pre.body[1], 2)
  /\ Len(NewWaits) = 1
  /\ func.ops[NewWaits[1]].operands[1] = Ambient.stream
  /\ func.ops[NewWaits[1]].operands[3] = Ambient.chain

\* C21: a successful lowering creates a stream exactly when the wait is
\* async and inside an async.execute: then it takes one context from the
\* ambient stream, creates one stream from that context and every
\* stream.wait is on the new stream; in every other case, that of a wait
\* inside a tfrt_gpu_conversion.async.execute only included, it creates no
\* stream, no context and no event, and every stream.wait is on the ambient
\* stream.
C21_NewStreamWhenAsyncInExec ==
  (WaitLowered /\ result) =>
    IF pre.ops[root].rtype = "token" /\ "async.execute" \in
         {pre.ops[a].kind : a \in Range(Ancestors(pre, root))}
      THEN /\ Cardinality(NewOfKind("stream.get_context")) = 1
           /\ Cardinality(NewOfKind("stream.create")) = 1
           /\ \A c \in NewOfKind("stream.get_context"), n \in NewOfKind("stream.create") :
                /\ func.ops[c].operands = <<Ambient.stream>>
                /\ func.ops[n].operands = <<Res(c)>>
                /\ \A w \in NewOfKind("stream.wait") : func.ops[w].operands[1] = Res(n)
                /\ NewOfKind("stream.wait") # {}
      ELSE /\ NewOfKind("stream.create") = {}
           /\ NewOfKind("stream.get_context") = {}
           /\ NewOfKind("event.create") = {}
           /\ NewOfKind("event.record") = {}
           /\ \A w \in NewOfKind("stream.wait") : func.ops[w].operands[1] = Ambient.stream
           /\ Cardinality(NewOfKind("stream.wait")) = Len(WaitEvents)

\* An async wait on two events inside an async.execute was lowered: both
\* stream.wait are on the one new stream.
C21_Witness ==
  /\ WaitLowered /\ result /\ WaitAsync /\ WaitInExec
  /\ Len(WaitEvents) = 2
  /\ Cardinality(NewOfKind("stream.create")) = 1
  /\ Cardinality(NewOfKind("stream.wait")) = 2
  /\ \A w \in NewOfKind("stream.wait") :
       func.ops[w].operands[1] \in {Res(n) : n \in NewOfKind("stream.create")}

\* The chain the function returns.
Returned(f) == f.ops[FuncTerminator(f)].operands[1]

\* C22 as stated: after each successful lowering of a wait that is not
\* async, the chain the function returns is downstream of the chain it
\* returned before that lowering and of every event operand of the wait, so
\* that after any sequence of such lowerings it is downstream of the events
\* of every wait lowered so far.
C22_ReturnedChainKeepsDependencies ==
  (WaitLowered /\ result /\ ~WaitAsync) =>
    /\ Downstream(func, Returned(func), Returned(pre))
    /\ \A i \in DOMAIN WaitEvents : Downstream(func, Returned(func), WaitEvents[i])

(* ------------------------ YieldOpRewritePattern ----------------------- *)

\* The position any_of stops at: the last operand that a cast of a chain and
\* a stream defines (0: none).
FirstTokenOperand_Last(f, operands) ==
  LET tokens == {i \in DOMAIN operands : GetDefiningCastOp(f, operands[i]) # NoOp}
  IN IF tokens = {} THEN 0 ELSE CHOOSE i \in tokens : \A j \in tokens : j <= i

\* The position any_of stops at: the first operand that a cast of a chain
\* and a stream defines (0: none).
FirstTokenOperand(f, operands) ==
  LET tokens == {i \in DOMAIN operands : GetDefiningCastOp(f, operands[i]) # NoOp}
  IN IF tokens = {} THEN 0 ELSE CHOOSE i \in tokens : \A j \in tokens : i <= j

\* LowerYieldOperand leaving the cast in place.
LowerYieldOperand_KeepCast(f, op, index) ==
  LET cast_op == GetDefiningCastOp(f, f.ops[op].operands[index])
      chain   == f.ops[cast_op].operands[1]
      stream  == f.ops[cast_op].operands[2]
      f1      == CreateBefore(f, op, MkOp("stream.get_context", <<stream>>, "context"))
      context == Res(f.nextOp)
      f2      == CreateBefore(f1, op, MkOp("event.create", <<context>>, "event"))
      event   == Res(f1.nextOp)
      f3      == CreateBefore(f2, op, MkOp("event.record", <<event, stream, chain>>, "chain"))
  IN [f3 EXCEPT !.ops[op].operands[index] = event]

\* The body of the lambda for an operand that a cast defines: an event is
\* created and recorded on the stream of the cast against its chain, the
\* operand becomes the event and the cast is erased.
LowerYieldOperand(f, op, index) ==
  LET cast_op == GetDefiningCastOp(f, f.ops[op].operands[index])
      chain   == f.ops[cast_op].operands[1]
      stream  == f.ops[cast_op].operands[2]
      f1      == CreateBefore(f, op, MkOp("stream.get_context", <<stream>>, "context"))
      context == Res(f.nextOp)
      f2      == CreateBefore(f1, op, MkOp("event.create", <<context>>, "event"))
      event   == Res(f1.nextOp)
      f3      == CreateBefore(f2, op, MkOp("event.record", <<event, stream, chain>>, "chain"))
  IN EraseOp([f3 EXCEPT !.ops[op].operands[index] = event], cast_op)

\* YieldOpRewritePattern::matchAndRewrite
YieldOpRewritePattern(f, op) ==
  LET index == FirstTokenOperand(f, f.ops[op].operands)
  IN IF index = 0
       THEN [func |-> f, result |-> FALSE, reason |-> "no cast to token operand"]
       ELSE [func |-> LowerYieldOperand(f, op, index), result |-> TRUE, reason |-> ""]

YieldOps(f) == {o \in DOMAIN f.ops : f.ops[o].kind = "async.yield"}

YieldOpRewrite ==
  /\ attempts < MaxAttempts
  /\ \E op \in YieldOps(func) :
       LET r == YieldOpRewritePattern(func, op)
       IN /\ func' = RollbackOnFailure(func, r)
          /\ result' = r.result
          /\ reason' = r.reason
          /\ root' = op
  /\ pattern' = "YieldOpRewrite"
  /\ pre' = func
  /\ attempts' = attempts + 1
  /\ UNCHANGED <<target, rootUpdate, blockResults, mean>>

(* ---------------------- inputs of the yield lowering ------------------ *)

\* A function in target form whose entry block holds the prelude and an
\* async.execute whose body is an async.yield of the named values.
BuildYieldFunc(names) ==
  LET f0 == AddBlock(EmptyFunc(<<"chain", "stream">>, <<"chain">>),
                     <<"chain", "stream">>, NoOp)
      f1 == AppendOps(f0, 1, Prelude)
      f2 == AddBlock(AppendOp(f1, 1, MkOp("async.execute", <<>>, "token")), <<>>, f1.nextOp)
      f3 == AppendOp(f2, f1.nextBlock,
                     MkOp("async.yield", [i \in DOMAIN names |-> Named(names[i])], "none"))
  IN AppendOp(f3, 1, MkOp("tfrt.return", <<Arg(1, 1)>>, "none"))

\* The operand lists of the yields: no token is yielded twice.
YieldOperands ==
  {names \in SeqsUpTo({"e1", "e2", "t1", "t2", "t3", "bad"}, MaxYieldOperands) :
     \A i, j \in DOMAIN names :
       (i # j /\ names[i] \in {"t1", "t2", "t3"}) => names[i] # names[j]}

InitYield ==
  /\ \E names \in YieldOperands : func = BuildYieldFunc(names)
  /\ target = {}
  /\ pattern = ""
  /\ result = FALSE
  /\ reason = ""
  /\ rootUpdate = "none"
  /\ blockResults = <<>>
  /\ pre = func
  /\ root = NoOp
  /\ attempts = 0
  /\ mean = NoMean

NextYield == YieldOpRewrite

SpecYield == InitYield /\ [][NextYield]_vars

(* ----------------------- yield lowering: the claims ------------------- *)

YieldLowered == pattern = "YieldOpRewrite"

\* The positions of the operands of the yield in f that are tokens: results
\* of a cast of a chain and a stream.
YieldTokens(f) ==
  {i \in DOMAIN f.ops[root].operands :
     LET v == f.ops[root].operands[i]
     IN /\ v.def = "op"
        /\ f.ops[v.id].kind = "cast"
        /\ [k \in DOMAIN f.ops[v.id].operands |-> TypeOf(f, f.ops[v.id].operands[k])]
             = <<"chain", "stream">>}

\* C11 as stated: after a successful yield lowering no operand of the yield
\* is a token, however many token operands the yield had.
C11_NoTokenLeft == (YieldLowered /\ result) => YieldTokens(func) = {}

\* C11 amended: a successful yield lowering replaces the first token operand
\* of the yield, and only that one, by a new event recorded on the stream of
\* that token against its chain; the other operands, later tokens included,
\* are as they were.
C11_FirstTokenReplaced ==
  (YieldLowered /\ result) =>
    LET first == CHOOSE i \in YieldTokens(pre) : \A j \in YieldTokens(pre) : i <= j
        cast  == pre.ops[root].operands[first].id
        event == func.ops[root].operands[first]
    IN /\ YieldTokens(pre) # {}
       /\ YieldTokens(func) = YieldTokens(pre) \ {first}
       /\ event \in {Res(o) : o \in NewOfKind("event.create")}
       /\ \E o \in NewOfKind("event.record") :
            func.ops[o].operands = <<event, pre.ops[cast].operands[2], pre.ops[cast].operands[1]>>
       /\ \A i \in DOMAIN pre.ops[root].operands :
            i # first => func.ops[root].operands[i] = pre.ops[root].operands[i]

\* A yield of two tokens was lowered once: its second token is still there.
C11_Witness ==
  /\ YieldLowered /\ result
  /\ Cardinality(YieldTokens(pre)) = 2
  /\ Cardinality(YieldTokens(func)) = 1

\* C12: lowering a yield with exactly one token operand creates exactly one
\* event.record, puts its event in the place of the token and erases the
\* cast, the other operands staying as they were; lowering a yield without
\* a token operand is a match failure that changes nothing.
C12_OneTokenOneRecord ==
  YieldLowered =>
    /\ Cardinality(YieldTokens(pre)) = 1 =>
         LET i    == CHOOSE k \in YieldTokens(pre) : TRUE
             cast == pre.ops[root].operands[i].id
         IN /\ result
            /\ Cardinality(NewOfKind("event.record")) = 1
            /\ \A o \in NewOfKind("event.record") :
                 /\ func.ops[o].operands[1] = func.ops[root].operands[i]
                 /\ func.ops[o].operands[2] = pre.ops[cast].operands[2]
                 /\ func.ops[o].operands[3] = pre.ops[cast].operands[1]
            /\ TypeOf(func, func.ops[root].operands[i]) = "event"
            /\ cast \notin DOMAIN func.ops
            /\ \A k \in DOMAIN pre.ops[root].operands :
                 k # i => func.ops[root].operands[k] = pre.ops[root].operands[k]
    /\ YieldTokens(pre) = {} =>
         (~result /\ reason = "no cast to token operand" /\ func = pre)

\* A yield of an event, a token and a cast of an event was lowered.
C12_Witness ==
  /\ YieldLowered /\ result
  /\ Len(pre.ops[root].operands) = 3
  /\ YieldTokens(pre) = {2}
  /\ Cardinality(NewOfKind("event.record")) = 1

(* ----------------------- UnwrapAsyncExecPattern ----------------------- *)

\* MergeBlockBefore moving the operations of source to the end of the block of op.
MergeBlockBefore_AtEnd(f, source, op, argValues) ==
  LET repl == [v \in {Arg(source, i) : i \in DOMAIN f.blocks[source].args} |->
                 argValues[v.idx]]
      f1   == ReplaceUses(f, repl)
      dest == BlockOf(f, op)
  IN [f1 EXCEPT !.blocks = [b \in DOMAIN f.blocks \ {source} |->
                              IF b = dest
                                THEN [f.blocks[b] EXCEPT !.ops = @ \o f.blocks[source].ops]
                                ELSE f.blocks[b]],
                !.ops[op].region = <<>>]

\* rewriter.mergeBlockBefore(source, op, argValues): the operations of source
\* go before op, argValues replace the arguments of source, and source is
\* erased.
MergeBlockBefore(f, source, op, argValues) ==
  LET repl == [v \in {Arg(source, i) : i \in DOMAIN f.blocks[source].args} |->
                 argValues[v.idx]]
      f1   == ReplaceUses(f, repl)
      dest == BlockOf(f, op)
      L    == f.blocks[dest].ops
      p    == Index(L, op)
  IN [f1 EXCEPT !.blocks = [b \in DOMAIN f.blocks \ {source} |->
                              IF b = dest
                                THEN [f.blocks[b] EXCEPT !.ops =
                                        SubSeq(L, 1, p - 1) \o f.blocks[source].ops
                                          \o SubSeq(L, p, Len(L))]
                                ELSE f.blocks[b]],
                !.ops[op].region = <<>>]

\* UnwrapAsyncExecPattern not asking for a result.
UnwrapAsyncExecPattern_NoResultCheck(f, op) ==
  LET operands == f.ops[op].operands
  IN IF operands = <<>>
       THEN [func |-> f, result |-> FALSE, reason |-> "no operands or no result"]
     ELSE LET cast_op == GetDefiningCastOp(f, operands[1])
     IN IF cast_op = NoOp
          THEN [func |-> f, result |-> FALSE, reason |-> "expected cast to token"]
        ELSE
          LET body       == f.ops[op].region[1]
              terminator == Terminator(f, body)
              f1 == MergeBlockBefore(f, body, op, f.ops[cast_op].operands)
              f2 == CreateBefore(f1, op,
                      MkOp("cast", <<f1.ops[terminator].operands[1],
                                     f1.ops[cast_op].operands[2]>>, "token"))
              f3 == EraseOp(ReplaceUses(f2, (Res(op) :> Res(f1.nextOp))), op)
          IN [func |-> EraseOp(EraseOp(f3, terminator), cast_op),
              result |-> TRUE, reason |-> ""]

\* UnwrapAsyncExecPattern::matchAndRewrite
UnwrapAsyncExecPattern(f, op) ==
  LET operands == f.ops[op].operands
  IN IF operands = <<>> \/ f.ops[op].rtype # "token"
       THEN [func |-> f, result |-> FALSE, reason |-> "no operands or no result"]
     ELSE LET cast_op == GetDefiningCastOp(f, operands[1])
     IN IF cast_op = NoOp
          THEN [func |-> f, result |-> FALSE, reason |-> "expected cast to token"]
        ELSE
          LET body       == f.ops[op].region[1]
              terminator == Terminator(f, body)
              f1 == MergeBlockBefore(f, body, op, f.ops[cast_op].operands)
              f2 == CreateBefore(f1, op,
                      MkOp("cast", <<f1.ops[terminator].operands[1],
                                     f1.ops[cast_op].operands[2]>>, "token"))
              f3 == EraseOp(ReplaceUses(f2, (Res(op) :> Res(f1.nextOp))), op)
          IN [func |-> EraseOp(EraseOp(f3, terminator), cast_op),
              result |-> TRUE, reason |-> ""]

ExecOps(f) == {o \in DOMAIN f.ops : f.ops[o].kind = "exec"}

UnwrapAsyncExec ==
  /\ attempts < MaxAttempts
  /\ \E op \in ExecOps(func) :
       LET r == UnwrapAsyncExecPattern(func, op)
       IN /\ func' = RollbackOnFailure(func, r)
          /\ result' = r.result
          /\ reason' = r.reason
          /\ root' = op
  /\ pattern' = "UnwrapAsyncExec"
  /\ pre' = func
  /\ attempts' = attempts + 1
  /\ UNCHANGED <<target, rootUpdate, blockResults, mean>>

(* -------------------------- inputs of the unwrap ---------------------- *)

\* The body of an async.execute: n operations, each taking the chain of the
\* one before it (the chain argument for the first) and the stream argument,
\* and a tfrt.return of the last chain.
RECURSIVE BuildBody(_, _, _, _)
BuildBody(f, body, n, chain) ==
  IF n = 0 THEN AppendOp(f, body, MkOp("tfrt.return", <<chain>>, "none"))
  ELSE BuildBody(AppendOp(f, body, MkOp("gpu.op", <<chain, Arg(body, 2)>>, "chain")),
                 body, n - 1, Res(f.nextOp))

\* An async.execute appended to the entry block: x = [operands, token, body],
\* the operand "prev" standing for the value prev.
AppendExec(f, x, prev) ==
  LET exec == f.nextOp
      body == f.nextBlock
      operands == [i \in DOMAIN x.operands |->
                     IF x.operands[i] = "prev" THEN prev ELSE Named(x.operands[i])]
      f1 == AppendOp(f, 1, MkOp("exec", operands, IF x.token THEN "token" ELSE "none"))
      f2 == AddBlock(f1, <<"chain", "stream">>, exec)
  IN BuildBody(f2, body, x.body, Arg(body, 1))

\* A function in target form whose entry block holds the prelude, one or two
\* async.execute operations, an operation that takes the token of the last
\* async.execute that has one, and the return.
BuildUnwrapFunc(first, second) ==
  LET f0 == AddBlock(EmptyFunc(<<"chain", "stream">>, <<"chain">>),
                     <<"chain", "stream">>, NoOp)
      f1 == AppendOps(f0, 1, Prelude)
      e1 == f1.nextOp
      f2 == AppendExec(f1, first, Named("other"))
      e2 == f2.nextOp
      f3 == IF second.operands = <<"none">> THEN f2 ELSE AppendExec(f2, second, Res(e1))
      last == IF second.operands # <<"none">> /\ second.token THEN <<Res(e2)>>
              ELSE IF first.token THEN <<Res(e1)>> ELSE <<>>
      f4 == AppendOp(f3, 1, MkOp("use.token", last, "none"))
  IN AppendOp(f4, 1, MkOp("tfrt.return", <<Arg(1, 1)>>, "none"))

FirstExecs ==
  [operands : SeqsUpTo({"t1", "e1", "bad"}, MaxExecOperands),
   token : BOOLEAN, body : 0..MaxBodyOps]

SecondExecs ==
  {[operands |-> <<"none">>, token |-> FALSE, body |-> 0],
   [operands |-> <<"prev">>, token |-> TRUE, body |-> 1],
   [operands |-> <<"prev", "e2">>, token |-> FALSE, body |-> 1],
   [operands |-> <<"t2", "e2">>, token |-> TRUE, body |-> 0]}

InitUnwrap ==
  /\ \E first \in FirstExecs, second \in SecondExecs :
       func = BuildUnwrapFunc(first, second)
  /\ target = {}
  /\ pattern = ""
  /\ result = FALSE
  /\ reason = ""
  /\ rootUpdate = "none"
  /\ blockResults = <<>>
  /\ pre = func
  /\ root = NoOp
  /\ attempts = 0
  /\ mean = NoMean

NextUnwrap == UnwrapAsyncExec

SpecUnwrap == InitUnwrap /\ [][NextUnwrap]_vars

(* --------------------------- unwrap: the claims ----------------------- *)

Unwrapped == pattern = "UnwrapAsyncExec"

\* C18: unwrapping an async.execute that has a token result and whose first
\* operand is a cast of a chain and a stream succeeds; the operations of its
\* body stand in the parent block where the async.execute stood, in their
\* order, taking the chain and the stream of the cast where they took the
\* arguments of the body; one new cast of the chain the body returned and of
\* the same stream follows them and takes over the uses of the result; the
\* async.execute, its body block, the terminator of the body and the cast of
\* the first operand are gone.
C18_BodyInlined ==
  (/\ Unwrapped
   /\ pre.ops[root].operands # <<>>
   /\ IsToken(pre.ops[root].operands[1])
   /\ pre.ops[root].rtype = "token") =>
    LET cast  == pre.ops[root].operands[1].id
        body  == pre.ops[root].region[1]
        all   == pre.blocks[body].ops
        inner == SubSeq(all, 1, Len(all) - 1)
        term  == all[Len(all)]
        b     == BlockOf(pre, root)
        L     == pre.blocks[b].ops
        p     == Index(L, root)
        Subst(v) == IF v = Arg(body, 1) THEN pre.ops[cast].operands[1]
                    ELSE IF v = Arg(body, 2) THEN pre.ops[cast].operands[2]
                    ELSE v
    IN /\ result
       /\ Cardinality(NewOps) = 1
       /\ \A new \in NewOps :
            /\ func.ops[new].kind = "cast"
            /\ func.ops[new].rtype = "token"
            /\ func.ops[new].operands =
                 <<Subst(pre.ops[term].operands[1]), pre.ops[cast].operands[2]>>
            /\ func.blocks[b].ops =
                 SelectSeq(SubSeq(L, 1, p - 1) \o inner \o <<new>> \o SubSeq(L, p + 1, Len(L)),
                           LAMBDA o : o # cast)
            /\ \A u \in DOMAIN func.ops \cap DOMAIN pre.ops :
                 u \notin Range(inner) =>
                   func.ops[u].operands =
                     [i \in DOMAIN pre.ops[u].operands |->
                        IF pre.ops[u].operands[i] = Res(root) THEN Res(new)
                        ELSE pre.ops[u].operands[i]]
       /\ \A o \in Range(inner) :
            /\ o \in DOMAIN func.ops
            /\ func.ops[o].operands =
                 [i \in DOMAIN pre.ops[o].operands |-> Subst(pre.ops[o].operands[i])]
       /\ {root, term, cast} \cap DOMAIN func.ops = {}
       /\ body \notin DOMAIN func.blocks

\* An async.execute with two body operations was unwrapped, and an operation
\* after it took its token.
C18_Witness ==
  /\ Unwrapped /\ result
  /\ Len(pre.blocks[pre.ops[root].region[1]].ops) = 3
  /\ \E u \in DOMAIN pre.ops : Res(root) \in Range(pre.ops[u].operands)
  /\ \E new \in NewOps : \E u \in DOMAIN func.ops : Res(new) \in Range(func.ops[u].operands)

\* C24: unwrapping an async.execute that has no operands, or no token
\* result, or whose first operand is not the result of a cast of a chain and
\* a stream, is a match failure with its reason, and the function is as it
\* was: the async.execute and its body are still there.
C24_UnwrapDeclines ==
  Unwrapped =>
    LET operands == pre.ops[root].operands
        noPair   == operands = <<>> \/ pre.ops[root].rtype # "token"
        noCast   == operands # <<>> /\ ~IsToken(operands[1])
    IN (noPair \/ noCast) =>
         /\ ~result
         /\ reason = (IF noPair THEN "no operands or no result"
                      ELSE "expected cast to token")
         /\ func = pre
         /\ root \in DOMAIN func.ops
         /\ pre.ops[root].region[1] \in DOMAIN func.blocks
         /\ NewOps = {}

\* An async.execute with a token result whose first operand is a cast of an
\* event only was left in place.
C24_Witness ==
  /\ Unwrapped /\ ~result /\ reason = "expected cast to token"
  /\ pre.ops[root].rtype = "token"
  /\ LET v == pre.ops[root].operands[1]
     IN v.def = "op" /\ pre.ops[v.id].kind = "cast" /\ Len(pre.ops[v.id].operands) = 1
  /\ root \in DOMAIN func.ops

(* --------------------- GpuAsyncOpConversionPattern -------------------- *)

NoValue == [def |-> "none", id |-> 0, idx |-> 0]

\* internal::GpuAsyncOpConversionGetStream
GetStream(f, parent) ==
  IF parent # NoOp /\ f.ops[parent].kind = "exec"
    THEN Arg(f.ops[parent].region[1], 2)
    ELSE NoValue

\* internal::GpuAsyncOpConversionGetChain
GetChain(f, parent) ==
  IF parent # NoOp /\ f.ops[parent].kind = "exec"
    THEN LET body == f.ops[parent].region[Len(f.ops[parent].region)]
         IN f.ops[Terminator(f, body)].operands[1]
    ELSE NoValue

\* SetChain leaving the terminator as it was.
SetChain_Keep(f, chain) == f

\* internal::GpuAsyncOpConversionSetChain: the terminator of the region that
\* holds the definition of chain returns chain.
SetChain(f, chain) ==
  LET block == IF chain.def = "arg" THEN chain.id ELSE BlockOf(f, chain.id)
      terminator == Terminator(f, block)
  IN [f EXCEPT !.ops[terminator].operands = <<chain>>]

\* matchAndRewriteOp of a derived pattern: it fails, or it replaces op by an
\* operation that runs on stream, takes in_chain and gives a chain.
matchAndRewriteOp(f, op, in_chain, stream, ok) ==
  IF ok
    THEN [func |-> EraseOp(CreateBefore(f, op, MkOp("gpu.lowered", <<in_chain, stream>>, "chain")), op),
          result |-> TRUE, out_chain |-> Res(f.nextOp)]
    ELSE [func |-> f, result |-> FALSE, out_chain |-> NoValue]

\* GpuAsyncOpConversionPattern going on without a chain or a stream.
GpuAsyncOpConversionPattern_NoParentCheck(f, op, ok) ==
  LET parent   == ParentOp(f, op)
      in_chain == GetChain(f, parent)
      stream   == GetStream(f, parent)
      r        == matchAndRewriteOp(f, op, in_chain, stream, ok)
  IN IF ~r.result
       THEN [func |-> r.func, result |-> FALSE, reason |-> ""]
       ELSE [func |-> SetChain(r.func, r.out_chain), result |-> TRUE, reason |-> ""]

\* GpuAsyncOpConversionPattern::matchAndRewrite
GpuAsyncOpConversionPattern(f, op, ok) ==
  LET parent   == ParentOp(f, op)
      in_chain == GetChain(f, parent)
      stream   == GetStream(f, parent)
  IN IF in_chain = NoValue \/ stream = NoValue
       THEN [func |-> f, result |-> FALSE, reason |-> "Failed to get chain and stream."]
     ELSE LET r == matchAndRewriteOp(f, op, in_chain, stream, ok)
          IN IF ~r.result
               THEN [func |-> r.func, result |-> FALSE, reason |-> ""]
               ELSE [func |-> SetChain(r.func, r.out_chain), result |-> TRUE, reason |-> ""]

AsyncOps(f) == {o \in DOMAIN f.ops : f.ops[o].kind = "gpu.async.op"}

GpuAsyncOpConversion ==
  /\ attempts < MaxLowerings
  /\ \E op \in AsyncOps(func), ok \in BOOLEAN :
       LET r == GpuAsyncOpConversionPattern(func, op, ok)
       IN /\ func' = RollbackOnFailure(func, r)
          /\ result' = r.result
          /\ reason' = r.reason
          /\ root' = op
  /\ pattern' = "GpuAsyncOpConversion"
  /\ pre' = func
  /\ attempts' = attempts + 1
  /\ UNCHANGED <<target, rootUpdate, blockResults, mean>>

(* ----------------------- inputs of the base pattern ------------------- *)

\* The operations of a body built from their kinds: a "gpu.async.op" to
\* lower, or a "region.op" whose block holds one.
RECURSIVE BuildAsyncOps(_, _, _)
BuildAsyncOps(f, b, kinds) ==
  IF kinds = <<>> THEN f
  ELSE LET o  == f.nextOp
           f1 == AppendOp(f, b, MkOp(Head(kinds), <<>>, "none"))
       IN IF Head(kinds) = "region.op"
            THEN LET f2 == AddBlock(f1, <<>>, o)
                     f3 == AppendOp(f2, f1.nextBlock, MkOp("gpu.async.op", <<>>, "none"))
                     f4 == AppendOp(f3, f1.nextBlock, MkOp("yield", <<>>, "none"))
                 IN BuildAsyncOps(f4, b, Tail(kinds))
            ELSE BuildAsyncOps(f1, b, Tail(kinds))

\* A function whose entry block holds an operation to lower outside any
\* async.execute, an async.execute whose body holds the operations of the
\* given kinds and returns its chain argument, and the return.
BuildAsyncFunc(kinds) ==
  LET f0 == AddBlock(EmptyFunc(<<>>, <<>>), <<>>, NoOp)
      f1 == AppendOp(f0, 1, MkOp("gpu.async.op", <<>>, "none"))
      exec == f1.nextOp
      body == f1.nextBlock
      f2 == AddBlock(AppendOp(f1, 1, MkOp("exec", <<>>, "none")), <<"chain", "stream">>, exec)
      f3 == BuildAsyncOps(f2, body, kinds)
      f4 == AppendOp(f3, body, MkOp("tfrt.return", <<Arg(body, 1)>>, "none"))
  IN AppendOp(f4, 1, MkOp("return", <<>>, "none"))

BodyShapes == SeqsUpTo({"gpu.async.op", "region.op"}, MaxAsyncOps) \ {<<>>}

InitAsyncOp ==
  /\ \E kinds \in BodyShapes : func = BuildAsyncFunc(kinds)
  /\ target = {}
  /\ pattern = ""
  /\ result = FALSE
  /\ reason = ""
  /\ rootUpdate = "none"
  /\ blockResults = <<>>
  /\ pre = func
  /\ root = NoOp
  /\ attempts = 0
  /\ mean = NoMean

NextAsyncOp == GpuAsyncOpConversion

SpecAsyncOp == InitAsyncOp /\ [][NextAsyncOp]_vars

(* ------------------------ base pattern: the claims -------------------- *)

AsyncOpLowered == pattern = "GpuAsyncOpConversion"

\* The operations met going back from value v along operand 0, up to a
\* block argument.
RECURSIVE ChainBack(_, _)
ChainBack(f, v) ==
  IF v.def # "op" THEN <<>>
  ELSE <<v.id>> \o (IF f.ops[v.id].operands = <<>> THEN <<>>
                    ELSE ChainBack(f, f.ops[v.id].operands[1]))

\* The users of value v in f.
Users(f, v) == {u \in DOMAIN f.ops : v \in Range(f.ops[u].operands)}

\* C15: each operation lowered through the base pattern inside an
\* async.execute takes the chain the terminator of the body returned just
\* before and argument 1 of the body as its stream, and the terminator then
\* returns its chain; so after any sequence of lowerings the lowered
\* operations of a body are one chain by def-use edges: going back from the
\* terminator one meets each of them once and ends at argument 0 of the
\* body, and the chain of each has one user.
C15_LinearChain ==
  /\ (AsyncOpLowered /\ result) =>
       LET body == BlockOf(pre, root) IN
       /\ pre.blocks[body].parent # NoOp
       /\ pre.ops[pre.blocks[body].parent].kind = "exec"
       /\ Cardinality(NewOps) = 1
       /\ \A new \in NewOps :
            /\ func.ops[new].operands =
                 <<pre.ops[Terminator(pre, body)].operands[1], Arg(body, 2)>>
            /\ func.ops[Terminator(func, body)].operands = <<Res(new)>>
  /\ \A e \in {o \in DOMAIN func.ops : func.ops[o].kind = "exec"} :
       LET body    == func.ops[e].region[1]
           lowered == {o \in Range(func.blocks[body].ops) : func.ops[o].kind = "gpu.lowered"}
           back    == ChainBack(func, func.ops[Terminator(func, body)].operands[1])
           first   == IF back = <<>> THEN func.ops[Terminator(func, body)].operands[1]
                      ELSE func.ops[back[Len(back)]].operands[1]
       IN /\ Range(back) = lowered
          /\ Len(back) = Cardinality(lowered)
          /\ first = Arg(body, 1)
          /\ \A o \in lowered : Cardinality(Users(func, Res(o))) = 1
          /\ Cardinality(Users(func, Arg(body, 1))) = 1

\* Three operations of one body were lowered, one after the other.
C15_Witness ==
  /\ AsyncOpLowered /\ result
  /\ Cardinality({o \in DOMAIN func.ops : func.ops[o].kind = "gpu.lowered"}) = 3
  /\ Len(ChainBack(func, func.ops[Terminator(func, BlockOf(func, CHOOSE n \in NewOps : TRUE))].operands[1])) = 3

\* C23: lowering an operation whose parent is not an async.execute is a
\* match failure for want of a chain and a stream, whatever the rewrite of
\* the operation would have done, and nothing is created; and when the
\* rewrite of an operation inside an async.execute fails, the lowering
\* fails and the terminator of the body returns the chain it returned
\* before.
C23_FailureKeepsChain ==
  AsyncOpLowered =>
    LET body   == BlockOf(pre, root)
        parent == pre.blocks[body].parent
        inExec == parent # NoOp /\ pre.ops[parent].kind = "exec"
    IN /\ ~inExec =>
            /\ ~result
            /\ reason = "Failed to get chain and stream."
            /\ NewOps = {}
            /\ func = pre
       /\ (inExec /\ ~result) =>
            /\ reason = ""
            /\ func.ops[Terminator(func, body)] = pre.ops[Terminator(pre, body)]
            /\ root \in DOMAIN func.ops
            /\ {o \in DOMAIN func.ops : func.ops[o].kind = "gpu.lowered"}
                 = {o \in DOMAIN pre.ops : pre.ops[o].kind = "gpu.lowered"}

\* The rewrite of an operation failed in a body whose terminator returns the
\* chain of an operation lowered before: it still does.
C23_Witness ==
  /\ AsyncOpLowered /\ ~result /\ reason = ""
  /\ LET body == BlockOf(pre, root)
         ret  == func.ops[Terminator(func, body)].operands[1]
     IN /\ ret.def = "op"
        /\ func.ops[ret.id].kind = "gpu.lowered"

(* ------------------------- FoldMemrefViewPattern ---------------------- *)

\* ConstantIndexOp with its value.
ConstantIndexOp(value) == MkOp("constant.index", <<>>, "index") @@ [value |-> value]

\* The parts of the operands of a memref.view, as its adaptor names them.
ViewSource(operands) == operands[1]

ViewByteShift(operands) == operands[2]

ViewSizes(operands) == SubSeq(operands, 3, Len(operands))

\* IsConstZero taking any constant for zero.
IsConstZero_AnyConstant(f, v) ==
  /\ v.def = "op"
  /\ f.ops[v.id].kind = "constant.index"

\* byte_shift is defined by a ConstantIndexOp whose value is 0.
IsConstZero(f, v) ==
  /\ v.def = "op"
  /\ f.ops[v.id].kind = "constant.index"
  /\ f.ops[v.id].value = 0

\* FoldMemrefViewPattern::matchAndRewrite
FoldMemrefViewPattern(f, op) ==
  LET operands == f.ops[op].operands
  IN IF TypeOf(f, ViewSource(operands)) # "buffer"
       THEN [func |-> f, result |-> FALSE, reason |-> "expected gpu::BufferType source"]
     ELSE IF ~IsConstZero(f, ViewByteShift(operands))
       THEN [func |-> f, result |-> FALSE, reason |-> "expected const zero byte_shift"]
     ELSE IF ViewSizes(operands) # <<>>
       THEN [func |-> f, result |-> FALSE, reason |-> "expected no sizes"]
     ELSE [func |-> EraseOp(ReplaceUses(f, (Res(op) :> ViewSource(operands))), op),
           result |-> TRUE, reason |-> ""]

ViewOps(f) == {o \in DOMAIN f.ops : f.ops[o].kind = "memref.view"}

FoldMemrefView ==
  /\ attempts < MaxAttempts
  /\ \E op \in ViewOps(func) :
       LET r == FoldMemrefViewPattern(func, op)
       IN /\ func' = RollbackOnFailure(func, r)
          /\ result' = r.result
          /\ reason' = r.reason
          /\ root' = op
  /\ pattern' = "FoldMemrefView"
  /\ pre' = func
  /\ attempts' = attempts + 1
  /\ UNCHANGED <<target, rootUpdate, blockResults, mean>>

(* ------------------------ inputs of the view folding ------------------ *)

\* The values a view is made of.  The entry block takes a buffer and an
\* index; operations 1 to 6 give a buffer, a memref, the constants 0, 1 and
\* -1, and an index that is not a constant.
ViewPrelude ==
  <<MkOp("make.buffer", <<>>, "buffer"), MkOp("make.memref", <<>>, "memref"),
    ConstantIndexOp(0), ConstantIndexOp(1), ConstantIndexOp(0 - 1),
    MkOp("index.op", <<>>, "index")>>

ViewNamed(name) ==
  CASE name = "buffer.arg" -> Arg(1, 1)
    [] name = "index.arg" -> Arg(1, 2)
    [] name = "buffer" -> Res(1)
    [] name = "memref" -> Res(2)
    [] name = "c0" -> Res(3)
    [] name = "c1" -> Res(4)
    [] name = "cm1" -> Res(5)
    [] name = "dyn" -> Res(6)

\* A memref.view x = [source, shift, sizes, users] appended to the entry
\* block, followed by the operations that use its result.
AppendView(f, x) ==
  LET view == f.nextOp
      f1 == AppendOp(f, 1, MkOp("memref.view",
                                <<ViewNamed(x.source), ViewNamed(x.shift)>>
                                  \o [i \in 1..x.sizes |-> ViewNamed("dyn")],
                                "memref"))
  IN AppendOps(f1, 1, [i \in 1..x.users |-> MkOp("use.memref", <<Res(view)>>, "none")])

\* A function whose entry block holds the prelude, a view, a second view of
\* the result of the first (or none) and the return.
BuildViewFunc(first, second) ==
  LET f0 == AddBlock(EmptyFunc(<<"buffer", "index">>, <<>>), <<"buffer", "index">>, NoOp)
      f1 == AppendOps(f0, 1, ViewPrelude)
      v1 == f1.nextOp
      f2 == AppendView(f1, first)
      f3 == IF second = "none" THEN f2
            ELSE AppendOp(f2, 1, MkOp("memref.view", <<Res(v1), ViewNamed(second)>>, "memref"))
  IN AppendOp(f3, 1, MkOp("return", <<>>, "none"))

FirstViews ==
  [source : {"buffer.arg", "buffer", "memref"},
   shift : {"c0", "c1", "cm1", "dyn", "index.arg"},
   sizes : 0..MaxSizes, users : 0..MaxUsers]

SecondViews == {"none", "c0", "c1"}

InitView ==
  /\ \E first \in FirstViews, second \in SecondViews :
       func = BuildViewFunc(first, second)
  /\ target = {}
  /\ pattern = ""
  /\ result = FALSE
  /\ reason = ""
  /\ rootUpdate = "none"
  /\ blockResults = <<>>
  /\ pre = func
  /\ root = NoOp
  /\ attempts = 0
  /\ mean = NoMean

NextView == FoldMemrefView

SpecView == InitView /\ [][NextView]_vars

(* ------------------------- view folding: the claims ------------------- *)

ViewFolded == pattern = "FoldMemrefView"

\* C25: a memref.view is folded exactly when its source is a buffer, its
\* byte shift is the result of a constant 0 and it has no sizes: the view is
\* erased and every use of its result takes the source.  When one of the
\* three does not hold the folding is a match failure that names the first
\* of them that does not hold, and the function is as it was.
C25_ViewFolded ==
  ViewFolded =>
    LET operands == pre.ops[root].operands
        source   == operands[1]
        shift    == operands[2]
        isBuffer == TypeOf(pre, source) = "buffer"
        isZero   == shift \in {Res(o) : o \in {c \in DOMAIN pre.ops :
                                 pre.ops[c].kind = "constant.index" /\ pre.ops[c].value = 0}}
        noSizes  == Len(operands) = 2
    IN /\ result <=> (isBuffer /\ isZero /\ noSizes)
       /\ result =>
            /\ root \notin DOMAIN func.ops
            /\ DOMAIN func.ops = DOMAIN pre.ops \ {root}
            /\ \A u \in DOMAIN func.ops :
                 func.ops[u].operands =
                   [i \in DOMAIN pre.ops[u].operands |->
                      IF pre.ops[u].operands[i] = Res(root) THEN source
                      ELSE pre.ops[u].operands[i]]
       /\ ~result =>
            /\ func = pre
            /\ reason = (IF ~isBuffer THEN "expected gpu::BufferType source"
                         ELSE IF ~isZero THEN "expected const zero byte_shift"
                         ELSE "expected no sizes")

\* A view of a buffer with a constant 0 shift, no sizes and two users was
\* folded: both users take the buffer.
C25_Witness ==
  /\ ViewFolded /\ result
  /\ Cardinality({u \in DOMAIN pre.ops : Res(root) \in Range(pre.ops[u].operands)}) >= 2
  /\ \A u \in DOMAIN pre.ops :
       Res(root) \in Range(pre.ops[u].operands) =>
         pre.ops[root].operands[1] \in Range(func.ops[u].operands)

(* ---------------------------- TfMeanOutputMd -------------------------- *)

\* MarkReduced without the check that an index comes once only.
RECURSIVE MarkReduced_NoUnique(_, _, _)
MarkReduced_NoUnique(rank, indices, reduced_dim) ==
  IF indices = <<>> THEN [error |-> "", reduced_dim |-> reduced_dim]
  ELSE LET reduction_index == Head(indices)
       IN IF reduction_index < 0 \/ reduction_index >= rank
            THEN [error |-> "tf.Mean reduction index must be in [0, input_rank) range",
                  reduced_dim |-> reduced_dim]
          ELSE MarkReduced_NoUnique(rank, Tail(indices),
                                    [reduced_dim EXCEPT ![reduction_index + 1] = TRUE])

\* The first loop: each reduction index marks its dimension; an index out of
\* range or one that marks a dimension again ends it with an error.
\* reduced_dim[i + 1] is the flag of dimension i.
RECURSIVE MarkReduced(_, _, _)
MarkReduced(rank, indices, reduced_dim) ==
  IF indices = <<>> THEN [error |-> "", reduced_dim |-> reduced_dim]
  ELSE LET reduction_index == Head(indices)
       IN IF reduction_index < 0 \/ reduction_index >= rank
            THEN [error |-> "tf.Mean reduction index must be in [0, input_rank) range",
                  reduced_dim |-> reduced_dim]
          ELSE IF reduced_dim[reduction_index + 1]
            THEN [error |-> "tf.Mean reduction indices must be unique",
                  reduced_dim |-> reduced_dim]
          ELSE MarkReduced(rank, Tail(indices),
                           [reduced_dim EXCEPT ![reduction_index + 1] = TRUE])

\* The second loop, from dimension i on: the sizes of the dimensions that are
\* not reduced.
RECURSIVE OutputDims(_, _, _)
OutputDims(dims, reduced_dim, i) ==
  IF i >= Len(dims) THEN <<>>
  ELSE (IF reduced_dim[i + 1] THEN <<>> ELSE <<dims[i + 1]>>)
         \o OutputDims(dims, reduced_dim, i + 1)

\* TfMeanOutputMd
TfMeanOutputMd(input, reduction_indices) ==
  LET rank == Len(input.dims)
      r    == MarkReduced(rank, reduction_indices, [i \in 1..rank |-> FALSE])
  IN IF r.error # ""
       THEN [error |-> r.error, dtype |-> "", dims |-> <<>>]
       ELSE [error |-> "", dtype |-> input.dtype,
             dims |-> OutputDims(input.dims, r.reduced_dim, 0)]

CallTfMeanOutputMd ==
  /\ ~mean.done
  /\ mean' = [mean EXCEPT !.done = TRUE,
                          !.output = TfMeanOutputMd(mean.input, mean.reduction_indices)]
  /\ UNCHANGED <<func, target, pattern, result, reason, rootUpdate, blockResults,
                 pre, root, attempts>>

(* --------------------------- inputs of tf.Mean ------------------------ *)

DTypes == {"f32", "i32"}

\* The shapes of the input and the reduction indices, which can be below 0
\* and at or above any rank.
InputDims == SeqsUpTo(1..MaxDim, MaxRank)

ReductionIndices == SeqsUpTo((0 - 1)..MaxRank, MaxIndices)

InitMean ==
  /\ \E dtype \in DTypes, dims \in InputDims, indices \in ReductionIndices :
       mean = [input |-> [dtype |-> dtype, dims |-> dims],
               reduction_indices |-> indices,
               done |-> FALSE, output |-> NoMetadata]
  /\ func = EmptyFunc(<<>>, <<>>)
  /\ target = {}
  /\ pattern = ""
  /\ result = FALSE
  /\ reason = ""
  /\ rootUpdate = "none"
  /\ blockResults = <<>>
  /\ pre = func
  /\ root = NoOp
  /\ attempts = 0

NextMean == CallTfMeanOutputMd

SpecMean == InitMean /\ [][NextMean]_vars

(* ----------------------------- tf.Mean: the claims -------------------- *)

\* C26: TfMeanOutputMd gives an error exactly when a reduction index is
\* outside [0, rank) or comes more than once, the message being that of the
\* first index at fault; otherwise it gives the dtype of the input and the
\* sizes of the dimensions that no index names, in their order.
C26_MeanOutputMetadata ==
  mean.done =>
    LET dims    == mean.input.dims
        rank    == Len(dims)
        indices == mean.reduction_indices
        OutOfRange(i) == indices[i] < 0 \/ indices[i] >= rank
        Repeated(i)   == \E j \in 1..(i - 1) : indices[j] = indices[i]
        faulty  == {i \in DOMAIN indices : OutOfRange(i) \/ Repeated(i)}
        first   == CHOOSE i \in faulty : \A j \in faulty : i <= j
        kept    == {p \in 1..rank : (p - 1) \notin Range(indices)}
        Pos(k)  == CHOOSE p \in kept : Cardinality({q \in kept : q < p}) = k - 1
        out     == mean.output
    IN IF faulty # {}
         THEN out.error = (IF OutOfRange(first)
                             THEN "tf.Mean reduction index must be in [0, input_rank) range"
                             ELSE "tf.Mean reduction indices must be unique")
         ELSE /\ out.error = ""
              /\ out.dtype = mean.input.dtype
              /\ Len(out.dims) = Cardinality(kept)
              /\ \A k \in DOMAIN out.dims : out.dims[k] = dims[Pos(k)]

\* The mean over dimensions 2 and 0 of an input of rank 3 keeps dimension 1.
C26_Witness ==
  /\ mean.done
  /\ Len(mean.input.dims) = 3
  /\ mean.reduction_indices = <<2, 0>>
  /\ mean.input.dims[2] # mean.input.dims[1]
  /\ mean.output = [error |-> "", dtype |-> mean.input.dtype, dims |-> <<mean.input.dims[2]>>]

====
